---- MODULE Spec2Model ----
(***************************************************************************)
(* A model of svglib (src/src/svglib): the path mini-language normaliser   *)
(* and path converter (utils.py, Svg2RlgShapeConverter.convertPath), the   *)
(* attribute resolver (AttributeConverter.findAttr with the stylesheet     *)
(* cascade) and the document walker (SvgRenderer) with svg2rlg around it.  *)
(*                                                                         *)
(* Five specifications share the variables:                                *)
(*   PathSpec  one path string is normalised, converted, written back out  *)
(*             and normalised again;                                       *)
(*   AttrSpec  attribute lookups, stylesheet loading and use instancing    *)
(*             on a small document;                                        *)
(*   Spec      svg2rlg on one document: decompression, load, root box,     *)
(*             tree walk, removal of the decompressed copy;                *)
(*   FunSpec   one converter called on one input: convertTransform, the    *)
(*             tail of convertPath, the arc branch, convertRect, the       *)
(*             transform of a nested svg or symbol;                        *)
(*   FontSpec  find_font and register_font on one FontMap.                 *)
(***************************************************************************)
EXTENDS Integers, Sequences, FiniteSets, TLC

VARIABLES
    pathIn,      \* the path string d, a sequence of characters
    pathStage,   \* how far the path pipeline has run
    normPath,    \* result of normalise_svg_path(d)
    pathOut,     \* the command list written back out as a string
    rePath,      \* result of normalise_svg_path on pathOut
    conv,        \* result of convertPath on the normalised list
    dom,         \* the element trees of all loaded files, one record per element
    doc0,        \* the elements as parsed, before any lookup or copy
    rens,        \* the SvgRenderer objects
    lookup,      \* the findAttr calls of the last step: node, name, value
    visited,     \* the elements renderNode was called on
    files,       \* the file system: what each path holds
    phase,       \* where svg2rlg is
    error,       \* the exception that left svg2rlg, if one did
    stack,       \* the call stack of the walk, innermost call last
    ret,         \* the value the last finished call returned (0 for None)
    out,         \* the reportlab objects made so far
    drawing,     \* the main group of the Drawing svg2rlg returns (0 for None)
    waited,      \* every (renderer, use element, group) put on a waiting list
    trail,       \* the phases svg2rlg went through, in order
    path,        \* the path svg2rlg works on, first the one it was given
    unzipped,    \* whether svg2rlg wrote a decompressed copy
    queueLog,    \* what was done to the waiting lists, in order
    call,        \* the converter call under way: its name and its arguments
    returned,    \* what that call returned or raised
    fonts        \* the FontMap, reportlab's font registry and the host's fonts

pathVars == <<pathIn, pathStage, normPath, pathOut, rePath, conv>>

treeVars == <<dom, doc0, rens, lookup, visited>>

walkVars == <<files, phase, error, stack, ret, out, drawing, waited, trail,
              path, unzipped, queueLog>>

funVars == <<call, returned, fonts>>

vars == <<pathIn, pathStage, normPath, pathOut, rePath, conv,
          dom, doc0, rens, lookup, visited,
          files, phase, error, stack, ret, out, drawing, waited, trail,
          path, unzipped, queueLog, call, returned, fonts>>

\* no path is being converted
IdlePath ==
    /\ pathIn = <<>>
    /\ pathStage = "off"
    /\ normPath = [raised |-> FALSE, cmds |-> <<>>]
    /\ pathOut = <<>>
    /\ rePath = [raised |-> FALSE, cmds |-> <<>>]
    /\ conv = [none |-> TRUE, raised |-> FALSE, norm |-> <<>>, path |-> <<>>]

\* no document is loaded
IdleTree ==
    /\ dom = <<>>
    /\ doc0 = <<>>
    /\ rens = <<>>
    /\ lookup = <<>>
    /\ visited = {}

\* no converter is being called
IdleFun ==
    /\ call = [fn |-> "none"]
    /\ returned = [done |-> FALSE]
    /\ fonts = <<>>

\* svg2rlg is not running
IdleWalk ==
    /\ files = <<>>
    /\ phase = "off"
    /\ error = ""
    /\ stack = <<>>
    /\ ret = 0
    /\ out = <<>>
    /\ drawing = 0
    /\ waited = {}
    /\ trail = <<>>
    /\ path = ""
    /\ unzipped = FALSE
    /\ queueLog = <<>>

(***************************************************************************)
(* Strings are sequences of one-character strings.                         *)
(***************************************************************************)
Digits == {"0", "1", "2", "3", "4", "5", "6", "7", "8", "9"}

DigitVal(c) ==
    CASE c = "0" -> 0 [] c = "1" -> 1 [] c = "2" -> 2 [] c = "3" -> 3
      [] c = "4" -> 4 [] c = "5" -> 5 [] c = "6" -> 6 [] c = "7" -> 7
      [] c = "8" -> 8 [] c = "9" -> 9

DigitChar(n) ==
    CASE n = 0 -> "0" [] n = 1 -> "1" [] n = 2 -> "2" [] n = 3 -> "3"
      [] n = 4 -> "4" [] n = 5 -> "5" [] n = 6 -> "6" [] n = 7 -> "7"
      [] n = 8 -> "8" [] n = 9 -> "9"

Blanks == {" ", ","}

\* str.strip() == "": only whitespace (a comma is not whitespace)
IsBlankItem(item) == \A i \in 1..Len(item) : item[i] = " "

(***************************************************************************)
(* utils.py: normalise_svg_path and split_floats                           *)
(***************************************************************************)
\* the operator table of normalise_svg_path: operator -> expected arguments
ops ==
    [c \in {"A", "a", "Q", "q", "T", "t", "S", "s", "M", "L", "m", "l",
            "H", "V", "h", "v", "C", "c", "Z", "z"} |->
        CASE c \in {"A", "a"} -> 7
          [] c \in {"Q", "q", "S", "s"} -> 4
          [] c \in {"T", "t", "M", "L", "m", "l"} -> 2
          [] c \in {"H", "V", "h", "v"} -> 1
          [] c \in {"C", "c"} -> 6
          [] c \in {"Z", "z"} -> 0]

\* the letters re.split("([achlmqstvz])", ..., flags=re.I) splits on
SplitLetters == DOMAIN ops

\* re.split with one capturing group: chunks and operator letters alternate
RECURSIVE SplitOps(_, _, _)
SplitOps(s, i, chunk) ==
    IF i > Len(s) THEN <<chunk>>
    ELSE IF s[i] \in SplitLetters
         THEN <<chunk, <<s[i]>>>> \o SplitOps(s, i + 1, <<>>)
         ELSE SplitOps(s, i + 1, Append(chunk, s[i]))

RECURSIVE DigitsEnd(_, _)
\* first position at or after i that holds no digit
DigitsEnd(s, i) ==
    IF i <= Len(s) /\ s[i] \in Digits THEN DigitsEnd(s, i + 1) ELSE i

SkipChar(s, i, cs) == IF i <= Len(s) /\ s[i] \in cs THEN i + 1 ELSE i

\* (?:[eE][+-]?\d+)? from position d: e is past the letter, f past the sign
ExpDigits(s, d, f) == IF DigitsEnd(s, f) > f THEN DigitsEnd(s, f) ELSE d

ExpEnd(s, d) ==
    IF d <= Len(s) /\ s[d] \in {"e", "E"}
    THEN ExpDigits(s, d, SkipChar(s, d + 1, {"+", "-"}))
    ELSE d

\* end (exclusive) of the greedy match of
\*   -?\d*\.?\d*(?:[eE][+-]?\d+)?
\* starting at position i; every part is optional, so the match may be empty
FloatMatchEnd(s, i) ==
    ExpEnd(s, DigitsEnd(s, SkipChar(s, DigitsEnd(s, SkipChar(s, i, {"-"})),
                                    {"."})))

RECURSIVE FindAllFloats(_, _)
FindFrom(s, i, e) ==
    IF e > i
    THEN <<SubSeq(s, i, e - 1)>> \o FindAllFloats(s, e)
    ELSE FindAllFloats(s, i + 1)

\* re.findall of the float pattern, the empty matches dropped ("if seq")
FindAllFloats(s, i) ==
    IF i > Len(s) THEN <<>> ELSE FindFrom(s, i, FloatMatchEnd(s, i))

\* float(seq) raises ValueError when the match holds no digit ("-", ".")
FloatOk(tok) == \E i \in 1..Len(tok) : tok[i] \in Digits

RECURSIVE NatOf(_, _)
NatOf(s, acc) ==
    IF s = <<>> THEN acc ELSE NatOf(Tail(s), 10 * acc + DigitVal(s[1]))

\* float(seq), as a number of tenths: the model's strings carry at most one
\* fractional digit and no exponent
FloatOf(tok) ==
    LET neg  == tok[1] = "-"
        body == IF neg THEN Tail(tok) ELSE tok
        dot  == IF \E i \in 1..Len(body) : body[i] = "."
                THEN CHOOSE i \in 1..Len(body) : body[i] = "."
                ELSE Len(body) + 1
        ip   == NatOf(SubSeq(body, 1, dot - 1), 0)
        fp   == IF dot < Len(body) THEN DigitVal(body[dot + 1]) ELSE 0
        v    == 10 * ip + fp
    IN  IF neg THEN 0 - v ELSE v

\* the list comprehension of split_floats: raised when some float() raises
ParseToks(toks) ==
    [raised |-> \E i \in 1..Len(toks) : ~FloatOk(toks[i]),
     floats |-> [i \in 1..Len(toks) |->
                    IF FloatOk(toks[i]) THEN FloatOf(toks[i]) ELSE 0]]

ParseFloats(value) == ParseToks(FindAllFloats(value, 1))

RECURSIVE SplitLoopKeepM(_, _, _, _)
\* split_floats without the rewriting of M into L
SplitLoopKeepM(op, min_num, floats, i) ==
    IF i > Len(floats) THEN <<>>
    ELSE LET hi == IF i + min_num - 1 > Len(floats)
                   THEN Len(floats) ELSE i + min_num - 1
         IN  <<[op |-> op, nums |-> SubSeq(floats, i, hi)]>>
             \o SplitLoopKeepM(op, min_num, floats, i + min_num)

RECURSIVE SplitLoop(_, _, _, _)
\* for i in range(0, len(floats), min_num): M becomes L after the first group
SplitLoop(op, min_num, floats, i) ==
    IF i > Len(floats) THEN <<>>
    ELSE LET o == IF i > 1 /\ op \in {"m", "M"}
                  THEN (IF op = "m" THEN "l" ELSE "L")
                  ELSE op
             hi == IF i + min_num - 1 > Len(floats)
                   THEN Len(floats) ELSE i + min_num - 1
         IN  <<[op |-> o, nums |-> SubSeq(floats, i, hi)]>>
             \o SplitLoop(o, min_num, floats, i + min_num)

\* split_floats(op, min_num, value); range(0, n, 0) raises ValueError
SplitParsed(op, min_num, p) ==
    IF p.raised \/ min_num = 0
    THEN [raised |-> TRUE, cmds |-> <<>>]
    ELSE [raised |-> FALSE, cmds |-> SplitLoop(op, min_num, p.floats, 1)]

split_floats(op, min_num, value) ==
    SplitParsed(op, min_num, ParseFloats(value))

\* "fix sequences of M to one M plus a sequence of L operators"
NextOp(item, op) ==
    IF item = "M" /\ op = "M" THEN "L"
    ELSE IF item = "m" /\ op = "m" THEN "l"
    ELSE item

RECURSIVE NormLoop(_, _, _, _)
\* an operator letter: remember it; Z and z go to the result at once
NormOp(groups, i, result, o) ==
    NormLoop(groups, i + 1, o,
             IF ops[o] = 0 THEN Append(result, [op |-> o, nums |-> <<>>])
             ELSE result)

\* the numbers after an operator: result.extend(split_floats(...)), then
\* op = result[-2], an IndexError on an empty result
NormExtend(groups, i, result, res) ==
    IF res = <<>> THEN [raised |-> TRUE, cmds |-> result]
    ELSE NormLoop(groups, i + 1, res[Len(res)].op, res)

NormChunk(groups, i, result, r) ==
    IF r.raised THEN [raised |-> TRUE, cmds |-> result]
    ELSE NormExtend(groups, i, result, result \o r.cmds)

NormItem(groups, i, op, result, item) ==
    IF IsBlankItem(item) THEN NormLoop(groups, i + 1, op, result)
    ELSE IF Len(item) = 1 /\ item[1] \in SplitLetters
    THEN NormOp(groups, i, result, NextOp(item[1], op))
    ELSE IF op = ""                                \* ops[""]: KeyError
    THEN [raised |-> TRUE, cmds |-> result]
    ELSE NormChunk(groups, i, result, split_floats(op, ops[op], item))

\* the loop of normalise_svg_path over the split groups
NormLoop(groups, i, op, result) ==
    IF i > Len(groups) THEN [raised |-> FALSE, cmds |-> result]
    ELSE NormItem(groups, i, op, result, groups[i])

normalise_svg_path(attr) == NormLoop(SplitOps(attr, 1, <<>>), 1, "", <<>>)

(***************************************************************************)
(* svglib.py: Svg2RlgShapeConverter.convertPath, the operators M m L l H h *)
(* V v Z z; coordinates are tenths                                         *)
(***************************************************************************)
NoPath == [operators |-> <<>>, points |-> <<>>, unclosed |-> <<>>,
           subpath_start |-> <<>>, lastop |-> ""]

Last2(points) == SubSeq(points, Len(points) - 1, Len(points))

\* path.moveTo / path.lineTo / path.closePath of reportlab's Path
PathAdd(p, opname, xy) ==
    [p EXCEPT !.operators = Append(@, opname), !.points = @ \o xy]

\* whether the body of the loop raises for (op, nums) on path p:
\* moveTo(*nums) and lineTo(*nums) take two numbers (TypeError), nums[1] and
\* points[-2] must exist (IndexError)
StepRaises(p, op, nums) ==
    CASE op \in {"M", "L"} -> Len(nums) # 2
      [] op = "m" -> \/ Len(nums) # 2
                     \/ /\ Len(p.points) >= 2
                        /\ p.lastop \in {"Z", "z"}
                        /\ p.subpath_start = <<>>   \* subpath_start[0]
      [] op = "l" -> Len(p.points) < 2 \/ Len(nums) < 2
      [] op \in {"H", "V", "h", "v"} -> Len(p.points) < 2 \/ Len(nums) < 1
      [] op \in {"Z", "z"} -> FALSE
      [] OTHER -> TRUE      \* curve and arc operators are outside the alphabet

PathStep(p, op, nums) ==
    LET pts == p.points
        q == CASE op = "M" -> [PathAdd(p, "moveTo", nums)
                                 EXCEPT !.subpath_start = nums]
               [] op = "L" -> PathAdd(p, "lineTo", nums)
               [] op = "m" ->
                    IF Len(pts) >= 2
                    THEN LET sp == IF p.lastop \in {"Z", "z"}
                                   THEN p.subpath_start ELSE Last2(pts)
                             xy == <<sp[1] + nums[1], sp[2] + nums[2]>>
                         IN  [PathAdd(p, "moveTo", xy)
                                EXCEPT !.subpath_start = xy]
                    ELSE [PathAdd(p, "moveTo", nums)
                            EXCEPT !.subpath_start = nums]
               [] op = "l" ->
                    PathAdd(p, "lineTo", <<Last2(pts)[1] + nums[1],
                                           Last2(pts)[2] + nums[2]>>)
               [] op = "H" -> PathAdd(p, "lineTo", <<nums[1], Last2(pts)[2]>>)
               [] op = "V" -> PathAdd(p, "lineTo", <<Last2(pts)[1], nums[1]>>)
               [] op = "h" ->
                    PathAdd(p, "lineTo", <<Last2(pts)[1] + nums[1],
                                           Last2(pts)[2]>>)
               [] op = "v" ->
                    PathAdd(p, "lineTo", <<Last2(pts)[1],
                                           Last2(pts)[2] + nums[1]>>)
               [] OTHER -> PathAdd(p, "closePath", <<>>)
    IN  [q EXCEPT !.lastop = op]

\* track subpaths needing to be closed later
MarkUnclosed(p, op, i) ==
    IF op \in {"m", "M"} /\ i > 1
       /\ p.operators[Len(p.operators)] # "closePath"
    THEN [p EXCEPT !.unclosed = Append(@, Len(p.operators))]
    ELSE p

RECURSIVE PathLoop(_, _, _)
PathBody(cmds, i, p, op, nums) ==
    IF StepRaises(p, op, nums)
    THEN [raised |-> TRUE, path |-> p]
    ELSE PathLoop(cmds, i + 1, PathStep(p, op, nums))

\* for i in range(0, len(normPath), 2)
PathLoop(cmds, i, p) ==
    IF i > Len(cmds) THEN [raised |-> FALSE, path |-> p]
    ELSE PathBody(cmds, i, MarkUnclosed(p, cmds[i].op, i),
                  cmds[i].op, cmds[i].nums)

\* after the loop: path.operators[-1] raises IndexError when the normalised
\* list is empty; an open last subpath is marked as well
FinishPath(cmds, r) ==
    IF r.raised \/ r.path.operators = <<>>
    THEN [none |-> FALSE, raised |-> TRUE, norm |-> cmds, path |-> r.path]
    ELSE [none |-> FALSE, raised |-> FALSE, norm |-> cmds,
          path |-> IF r.path.operators[Len(r.path.operators)] # "closePath"
                   THEN [r.path EXCEPT
                           !.unclosed = Append(@, Len(r.path.operators))]
                   ELSE r.path]

ConvertNorm(n) ==
    IF n.raised
    THEN [none |-> FALSE, raised |-> TRUE, norm |-> n.cmds, path |-> NoPath]
    ELSE FinishPath(n.cmds, PathLoop(n.cmds, 1, NoPath))

\* convertPath up to the path object: returns None for an empty d and raises
\* what normalise_svg_path or the loop raises
convertPath(d) ==
    IF d = <<>>
    THEN [none |-> TRUE, raised |-> FALSE, norm |-> <<>>, path |-> NoPath]
    ELSE ConvertNorm(normalise_svg_path(d))

(***************************************************************************)
(* Writing a command list back out: each operator followed by its numbers, *)
(* a number written as Python writes a float (sign, digits, ".", digit)    *)
(***************************************************************************)
RECURSIVE NatStr(_)
NatStr(n) ==
    IF n < 10 THEN <<DigitChar(n)>>
    ELSE Append(NatStr(n \div 10), DigitChar(n % 10))

FloatStr(v) ==
    LET a == IF v < 0 THEN 0 - v ELSE v
    IN  (IF v < 0 THEN <<"-">> ELSE <<>>)
        \o NatStr(a \div 10) \o <<".", DigitChar(a % 10)>>

RECURSIVE NumsStr(_)
NumsStr(nums) ==
    IF nums = <<>> THEN <<>>
    ELSE <<" ">> \o FloatStr(nums[1]) \o NumsStr(Tail(nums))

RECURSIVE Serialise(_)
Serialise(cmds) ==
    IF cmds = <<>> THEN <<>>
    ELSE <<cmds[1].op>> \o NumsStr(cmds[1].nums)
         \o (IF Len(cmds) > 1 THEN <<" ">> ELSE <<>>) \o Serialise(Tail(cmds))

(***************************************************************************)
(* PathSpec: the path strings                                              *)
(***************************************************************************)
\* the longest path, in segments (an operator letter and what follows it)
MaxSegs == 3

\* the numbers that follow an operator letter, as written in d
NumPool == <<<<"1">>, <<"-", "2">>, <<".", "5">>, <<"1", "2">>>>

RECURSIVE NumText(_, _)
\* the first k numbers of the pool, each after the separator sep; with the
\* empty separator a number is packed against the one before it where the
\* grammar allows it (a sign or a point starts a new number)
NumText(k, sep) ==
    IF k = 0 THEN <<>>
    ELSE NumText(k - 1, sep)
         \o (IF sep = "" /\ (k = 1 \/ NumPool[k][1] \in Digits)
             THEN <<" ">> ELSE IF sep = "" THEN <<>> ELSE <<sep>>)
         \o NumPool[k]

\* an operator letter ("B" is no operator of the path language) and a count
Segments ==
    {<<"M", 0>>, <<"M", 1>>, <<"M", 2>>, <<"M", 4>>,
     <<"m", 2>>, <<"m", 4>>,
     <<"L", 1>>, <<"L", 2>>, <<"L", 4>>,
     <<"Z", 0>>,
     <<"B", 0>>, <<"B", 2>>}

Separators == {" ", ""}

RECURSIVE PathText(_, _)
PathText(segs, sep) ==
    IF segs = <<>> THEN <<>>
    ELSE <<segs[1][1]>> \o NumText(segs[1][2], sep) \o PathText(Tail(segs), sep)

SegSeqs == UNION {[1..n -> Segments] : n \in 0..MaxSegs}

PathInputs == {PathText(s, sep) : s \in SegSeqs, sep \in Separators}

NoNorm == [raised |-> FALSE, cmds |-> <<>>]
NoConv == [none |-> FALSE, raised |-> FALSE, norm |-> <<>>, path |-> NoPath]

PathInit ==
    /\ pathIn \in PathInputs
    /\ pathStage = "input"
    /\ normPath = NoNorm
    /\ pathOut = <<>>
    /\ rePath = NoNorm
    /\ conv = NoConv
    /\ IdleTree
    /\ IdleWalk
    /\ IdleFun

\* convertPath(node): d = node.get("d"), normPath = normalise_svg_path(d), ...
ConvertPath ==
    /\ pathStage = "input"
    /\ normPath' = (IF pathIn = <<>> THEN NoNorm ELSE normalise_svg_path(pathIn))
    /\ conv' = convertPath(pathIn)
    /\ pathStage' = "converted"
    /\ UNCHANGED <<pathIn, pathOut, rePath>>
    /\ UNCHANGED treeVars
    /\ UNCHANGED <<walkVars, funVars>>

\* the normalised command list is written back out as a path string
Reserialise ==
    /\ pathStage = "converted"
    /\ ~normPath.raised
    /\ pathOut' = Serialise(normPath.cmds)
    /\ pathStage' = "reserialised"
    /\ UNCHANGED <<pathIn, normPath, rePath, conv>>
    /\ UNCHANGED treeVars
    /\ UNCHANGED <<walkVars, funVars>>

\* and normalised again
Renormalise ==
    /\ pathStage = "reserialised"
    /\ rePath' = normalise_svg_path(pathOut)
    /\ pathStage' = "renormalised"
    /\ UNCHANGED <<pathIn, normPath, pathOut, conv>>
    /\ UNCHANGED treeVars
    /\ UNCHANGED <<walkVars, funVars>>

PathNext == ConvertPath \/ Reserialise \/ Renormalise

PathSpec == PathInit /\ [][PathNext]_vars

(***************************************************************************)
(* Path claims                                                             *)
(***************************************************************************)
NumChars == Digits \cup {"-", ".", " ", ","}

\* the operator letters of d, in order, each with the text that follows it
OpGroups(d) ==
    LET g == SplitOps(d, 1, <<>>)
    IN  [j \in 1..((Len(g) - 1) \div 2) |->
            [op |-> g[2 * j][1], text |-> g[2 * j + 1]]]

NumbersWellFormed(text) ==
    /\ \A i \in 1..Len(text) : text[i] \in NumChars
    /\ ~ParseFloats(text).raised

NumCount(text) == Len(FindAllFloats(text, 1))

\* an operator followed by one or more full groups of its numbers
FullGroup(g) ==
    /\ NumbersWellFormed(g.text)
    /\ IF ops[g.op] = 0 THEN NumCount(g.text) = 0
       ELSE NumCount(g.text) > 0 /\ NumCount(g.text) % ops[g.op] = 0

\* a valid path string: it starts with a moveto, and every operator is a
\* known one followed by full groups of numbers
ValidPath(d) ==
    LET g == SplitOps(d, 1, <<>>)
    IN  /\ Len(g) >= 3
        /\ IsBlankItem(g[1])
        /\ OpGroups(d)[1].op \in {"M", "m"}
        /\ \A j \in DOMAIN OpGroups(d) : FullGroup(OpGroups(d)[j])

\* a letter that is no operator of the path language
HasUnknownOp(d) ==
    \E i \in 1..Len(d) : d[i] \notin NumChars \cup SplitLetters \cup {"e", "E"}

\* an operator followed by fewer numbers than its arity requires
HasTruncatedOp(d) ==
    \E j \in DOMAIN OpGroups(d) :
        LET g == OpGroups(d)[j]
        IN  /\ ops[g.op] > 0
            /\ NumbersWellFormed(g.text)
            /\ NumCount(g.text) % ops[g.op] # 0

OpLetters(d) == {d[i] : i \in {k \in 1..Len(d) : d[k] \in SplitLetters}}

C9_MoveRunCollapses ==
    (/\ pathStage # "input"
     /\ ValidPath(pathIn)
     /\ \E mv \in {"M", "m"} : OpLetters(pathIn) = {mv})
        => /\ ~normPath.raised
           /\ \A i \in 2..Len(normPath.cmds) :
                  normPath.cmds[i].op \in {"L", "l"}

\* C10: converting a path that starts with a complete moveto and holds an
\* unknown or a truncated operator never raises
C10_NeverRaises ==
    (/\ pathStage # "input"
     /\ Len(OpGroups(pathIn)) >= 1
     /\ IsBlankItem(SplitOps(pathIn, 1, <<>>)[1])
     /\ OpGroups(pathIn)[1].op \in {"M", "m"}
     /\ FullGroup(OpGroups(pathIn)[1])
     /\ HasUnknownOp(pathIn) \/ HasTruncatedOp(pathIn))
        => ~conv.raised

(***************************************************************************)
(* The element tree: etree elements as records, the children of an element *)
(* as a sequence of indices into dom, parent 0 for a root or a detached    *)
(* element                                                                 *)
(***************************************************************************)
Names == {"fill", "stroke", "display"}

\* the names applyStyleOnShape looks up, in the order of its mapping table
StyleNames == <<"fill", "stroke">>

NoValues == [a \in Names |-> ""]

Element ==
    [kind |-> "", id |-> "", href |-> "", file |-> "", class |-> "",
     attrib |-> NoValues, style |-> NoValues, text |-> <<>>,
     applied |-> FALSE, rendered |-> FALSE, parent |-> 0, kids |-> <<>>,
     size |-> 0, space |-> "", clip |-> ""]

\* a parsed source text: an element and the trees of its children
Tree(e, sub) == [e |-> e, sub |-> sub]

RECURSIVE TreeSize(_), PrefixSize(_, _)
TreeSize(t) == 1 + PrefixSize(t.sub, Len(t.sub) + 1)

PrefixSize(ts, i) ==
    IF i <= 1 THEN 0 ELSE PrefixSize(ts, i - 1) + TreeSize(ts[i - 1])

\* etree.parse: the elements of one file in document order, the root at me
RECURSIVE Flatten(_, _, _), FlattenKids(_, _, _, _)
Flatten(t, parent, me) ==
    <<[t.e EXCEPT !.parent = parent,
                  !.kids = [i \in 1..Len(t.sub) |-> me + 1 + PrefixSize(t.sub, i)]]>>
    \o FlattenKids(t.sub, 1, me, me + 1)

FlattenKids(ts, i, parent, next) ==
    IF i > Len(ts) THEN <<>>
    ELSE Flatten(ts[i], parent, next)
         \o FlattenKids(ts, i + 1, parent, next + TreeSize(ts[i]))

\* the elements below n, n first, in document order
RECURSIVE Subtree(_, _), SubtreeKids(_, _, _)
Subtree(d, n) == <<n>> \o SubtreeKids(d, d[n].kids, 1)

SubtreeKids(d, ks, i) ==
    IF i > Len(ks) THEN <<>>
    ELSE Subtree(d, ks[i]) \o SubtreeKids(d, ks, i + 1)

IndexOf(seq, x) == CHOOSE i \in 1..Len(seq) : seq[i] = x

\* copy.deepcopy(item): the elements of the list copied with every attribute
\* (the markers __rules_applied and _rendered included), renumbered from
\* base + 1, the copy of the first one hung under top
CopyNodes(d, nodes, base, top) ==
    [i \in 1..Len(nodes) |->
        [d[nodes[i]] EXCEPT
            !.parent = IF i = 1 THEN top ELSE base + IndexOf(nodes, @),
            !.kids = [k \in 1..Len(d[nodes[i]].kids) |->
                         base + IndexOf(nodes, d[nodes[i]].kids[k])]]]

AppendCopyKeepParent(d, u, t) ==
    [d EXCEPT ![u].kids = Append(@, Len(d) + 1)]
    \o CopyNodes(d, Subtree(d, t), Len(d), d[t].parent)

\* node.append(copy.deepcopy(item))
AppendCopy(d, u, t) ==
    [d EXCEPT ![u].kids = Append(@, Len(d) + 1)]
    \o CopyNodes(d, Subtree(d, t), Len(d), u)

\* node.parent.etree_element.remove(node.etree_element)
RemoveNode(d, n) ==
    [d EXCEPT ![d[n].parent].kids = SelectSeq(@, LAMBDA k : k # n),
              ![n].parent = 0]

(***************************************************************************)
(* The cascade and findAttr                                                *)
(***************************************************************************)
\* one declaration of one rule of a stylesheet: selector, name, value
Rule(by, v, name, value) ==
    [sel |-> [by |-> by, v |-> v], name |-> name, value |-> value]

\* cssselect2: a type, class or id selector against an element
Matches(e, sel) ==
    CASE sel.by = "kind" -> e.kind = sel.v
      [] sel.by = "class" -> e.class = sel.v
      [] sel.by = "id" -> e.id = sel.v

\* cssselect2 orders the matches by specificity, then by order of addition
Rank(sel) ==
    CASE sel.by = "kind" -> 1
      [] sel.by = "class" -> 2
      [] sel.by = "id" -> 3

RECURSIVE ApplyRank(_, _, _, _, _)
ApplyRank(attrib, e, rules, rank, i) ==
    IF i > Len(rules) THEN attrib
    ELSE ApplyRank(IF Matches(e, rules[i].sel) /\ Rank(rules[i].sel) = rank
                   THEN [attrib EXCEPT ![rules[i].name] = rules[i].value]
                   ELSE attrib,
                   e, rules, rank, i + 1)

\* NodeTracker.apply_rules
apply_rules(e, rules) ==
    [e EXCEPT !.attrib = ApplyRank(ApplyRank(ApplyRank(@, e, rules, 1, 1),
                                             e, rules, 2, 1), e, rules, 3, 1),
              !.applied = TRUE]

\* the declarations of the style attribute written over the attributes
ApplyStyle(e) ==
    IF e.style = NoValues THEN e
    ELSE [e EXCEPT !.attrib = [a \in Names |->
                                  IF e.style[a] # "" THEN e.style[a] ELSE @[a]],
                   !.applied = TRUE]

CascadeStyleFirst(e, rules) ==
    IF e.applied THEN e ELSE apply_rules(ApplyStyle(e), rules)

\* findAttr without the test of the __rules_applied marker
CascadeAgain(e, rules) == ApplyStyle(apply_rules(e, rules))

\* the first lines of findAttr: rules, then style, once per element
Cascade(e, rules) ==
    IF e.applied THEN e ELSE ApplyStyle(apply_rules(e, rules))

\* findAttr: the value and the tree as the lookup leaves it
RECURSIVE findAttr(_, _, _, _), FindIn(_, _, _, _)
findAttr(d, rules, n, name) ==
    FindIn([d EXCEPT ![n] = Cascade(@, rules)], rules, n, name)

FindIn(d, rules, n, name) ==
    IF d[n].attrib[name] \notin {"", "inherit"}
    THEN [dom |-> d, value |-> d[n].attrib[name]]
    ELSE IF d[n].parent # 0
         THEN findAttr(d, rules, d[n].parent, name)
         ELSE [dom |-> d, value |-> ""]

\* applyStyleOnShape: one findAttr per style name, in order
RECURSIVE StyleLookups(_, _, _, _, _), StyleStep(_, _, _, _, _)
StyleLookups(d, rules, n, i, log) ==
    IF i > Len(StyleNames) THEN [dom |-> d, log |-> log]
    ELSE StyleStep(findAttr(d, rules, n, StyleNames[i]), rules, n, i, log)

StyleStep(found, rules, n, i, log) ==
    StyleLookups(found.dom, rules, n, i + 1,
                 Append(log, [node |-> n, name |-> StyleNames[i],
                              value |-> found.value]))

(***************************************************************************)
(* SvgRenderer objects                                                     *)
(***************************************************************************)
Ids == {"a", "b", "c"}

Paths == {"a.svg", "b.svg", "c.svg"}

\* no ExternalSVG object has been made for a path
NoExternal == [made |-> FALSE, root |-> 0, ren |-> 0, rendered |-> FALSE]

\* SvgRenderer.__init__
SvgRenderer(source_path, parent_svgs) ==
    [source_path |-> source_path,
     parent_chain |-> parent_svgs,
     css_rules |-> <<>>,
     definitions |-> [i \in Ids |-> 0],
     waiting_use_nodes |-> [i \in Ids |-> <<>>],
     external_svgs |-> [p \in Paths |-> NoExternal],
     main_box |-> <<>>,
     preserve_space |-> FALSE]

\* renderStyle: css_rules.add_styles(node.text)
renderStyle(r, e) == [r EXCEPT !.css_rules = @ \o e.text]

\* get_box(node, default_box=True): the box of an svg element, here a
\* square of the side the element gives
BoxOf(e) == <<e.size>>

\* AttributeConverter.set_box
set_box(r, main_box) == [r EXCEPT !.main_box = main_box]

\* self.definitions[nid] = node
Register(r, nid, n) ==
    IF nid = "" THEN r ELSE [r EXCEPT !.definitions[nid] = n]

(***************************************************************************)
(* AttrSpec: lookups, stylesheet loading and use instancing on             *)
(*   <svg fill="gray"> <style/> <rect id="a" class="k"/>                   *)
(*                      <g stroke="navy"> <use href="#a"/> </g> </svg>     *)
(* with the fill attributes, style declarations and rules drawn below      *)
(***************************************************************************)
RectFills == {"", "inherit", "red"}
RectStyles == {"", "inherit", "blue"}
UseFills == {"", "inherit", "orange"}
GroupFills == {"", "green"}
GroupStyles == {"", "inherit", "lime"}

Sheets ==
    { <<>>,
      <<Rule("kind", "rect", "fill", "pink"), Rule("kind", "rect", "stroke", "pink")>>,
      <<Rule("id", "a", "fill", "gold"), Rule("class", "k", "fill", "teal"),
        Rule("kind", "rect", "fill", "pink"), Rule("kind", "rect", "stroke", "pink")>> }

Fill(v) == [NoValues EXCEPT !["fill"] = v]

AttrDoc(rf, rs, uf, gf, gs, sheet) ==
    Tree([Element EXCEPT !.kind = "svg", !.attrib = Fill("gray")],
         << Tree([Element EXCEPT !.kind = "style", !.text = sheet], <<>>),
            Tree([Element EXCEPT !.kind = "rect", !.id = "a", !.class = "k",
                                 !.attrib = Fill(rf), !.style = Fill(rs)], <<>>),
            Tree([Element EXCEPT !.kind = "g",
                                 !.attrib = [Fill(gf) EXCEPT !["stroke"] = "navy"],
                                 !.style = Fill(gs)],
                 << Tree([Element EXCEPT !.kind = "use", !.href = "a",
                                         !.attrib = Fill(uf)], <<>>) >>) >>)

AttrDocs ==
    { Flatten(AttrDoc(rf, rs, uf, gf, gs, sheet), 0, 1) :
        rf \in RectFills, rs \in RectStyles, uf \in UseFills,
        gf \in GroupFills, gs \in GroupStyles, sheet \in Sheets }

AttrInit ==
    /\ IdlePath
    /\ IdleFun
    /\ dom \in AttrDocs
    /\ doc0 = dom
    /\ rens = <<SvgRenderer("a.svg", <<>>)>>
    /\ lookup = <<>>
    /\ visited = {}
    /\ IdleWalk

\* AttributeConverter.findAttr(node, name) called on any element
FindAttr(n, name) ==
    /\ n \in 1..Len(dom)
    /\ dom' = findAttr(dom, rens[1].css_rules, n, name).dom
    /\ lookup' = <<[node |-> n, name |-> name,
                    value |-> findAttr(dom, rens[1].css_rules, n, name).value]>>
    /\ UNCHANGED <<doc0, rens, visited>>
    /\ UNCHANGED <<pathVars, funVars>>
    /\ UNCHANGED <<walkVars, funVars>>

\* renderNode on the style element: renderStyle
AttrRenderStyle(n) ==
    /\ n \in 1..Len(doc0) \ visited
    /\ dom[n].kind = "style"
    /\ rens' = [rens EXCEPT ![1] = renderStyle(@, dom[n])]
    /\ visited' = visited \cup {n}
    /\ lookup' = <<>>
    /\ UNCHANGED <<dom, doc0>>
    /\ UNCHANGED <<pathVars, funVars>>
    /\ UNCHANGED <<walkVars, funVars>>

\* renderNode on the rect: convertShape with applyStyleOnShape, then the
\* element is registered under its id
AttrRenderShape(n) ==
    /\ n \in 1..Len(doc0) \ visited
    /\ dom[n].kind = "rect"
    /\ dom' = StyleLookups(dom, rens[1].css_rules, n, 1, <<>>).dom
    /\ lookup' = StyleLookups(dom, rens[1].css_rules, n, 1, <<>>).log
    /\ rens' = [rens EXCEPT ![1] = Register(@, dom[n].id, n)]
    /\ visited' = visited \cup {n}
    /\ UNCHANGED doc0
    /\ UNCHANGED <<pathVars, funVars>>
    /\ UNCHANGED <<walkVars, funVars>>

\* renderNode on the use element once its target is registered: renderUse
\* appends a copy of the target, renders the copy (a rect) into the group
\* and the copy is registered under the id it carries
AttrRenderUse(u) ==
    /\ u \in 1..Len(doc0) \ visited
    /\ dom[u].kind = "use"
    /\ rens[1].definitions[dom[u].href] # 0
    /\ dom[u].kids = <<>>
    /\ dom' = StyleLookups(AppendCopy(dom, u, rens[1].definitions[dom[u].href]),
                           rens[1].css_rules, Len(dom) + 1, 1, <<>>).dom
    /\ lookup' = StyleLookups(AppendCopy(dom, u, rens[1].definitions[dom[u].href]),
                              rens[1].css_rules, Len(dom) + 1, 1, <<>>).log
    /\ rens' = [rens EXCEPT ![1] = Register(@, dom[rens[1].definitions[dom[u].href]].id,
                                            Len(dom) + 1)]
    /\ visited' = visited \cup {u, Len(dom) + 1}
    /\ UNCHANGED doc0
    /\ UNCHANGED <<pathVars, funVars>>
    /\ UNCHANGED <<walkVars, funVars>>

AttrNext ==
    \/ \E n \in 1..Len(dom), name \in {"fill"} : FindAttr(n, name)
    \/ \E n \in 1..Len(dom) : AttrRenderStyle(n)
    \/ \E n \in 1..Len(dom) : AttrRenderShape(n)
    \/ \E n \in 1..Len(dom) : AttrRenderUse(n)

AttrSpec == AttrInit /\ [][AttrNext]_vars

(***************************************************************************)
(* Attribute claims                                                        *)
(***************************************************************************)
IsSet(v) == v \notin {"", "inherit"}

\* the lookup order as documented: own attribute, then style key, then parent
RECURSIVE AttributeFirst(_, _, _)
AttributeFirst(d, n, name) ==
    IF IsSet(d[n].attrib[name]) THEN d[n].attrib[name]
    ELSE IF IsSet(d[n].style[name]) THEN d[n].style[name]
    ELSE IF d[n].parent # 0 THEN AttributeFirst(d, d[n].parent, name)
    ELSE ""

\* what an element of the source declares itself for a name
Declared(e, name) == IF e.style[name] # "" THEN e.style[name] ELSE e.attrib[name]

\* the nearest declaration on the element or above it in the source
RECURSIVE Inherited(_, _, _)
Inherited(d, n, name) ==
    IF IsSet(Declared(d[n], name)) THEN Declared(d[n], name)
    ELSE IF d[n].parent # 0 THEN Inherited(d, d[n].parent, name)
    ELSE ""

IsCopy(n) == n > Len(doc0)

\* the use element a copy hangs under and the source element it was copied from
UseOf(n) == dom[n].parent

TargetOf(n) == CHOOSE t \in 1..Len(doc0) : doc0[t].id = doc0[UseOf(n)].href

NoSheet == \A r \in 1..Len(rens) : rens[r].css_rules = <<>>

\* C5: a lookup returns the element's own attribute if present and not
\* "inherit", otherwise the value of that key in its style attribute,
\* otherwise the parent's result, "inherit" counting as absent at each level
\* (no stylesheet rule loaded).
C5_AttributeBeforeStyle ==
    \A i \in DOMAIN lookup :
        (~IsCopy(lookup[i].node) /\ NoSheet)
        => lookup[i].value = AttributeFirst(doc0, lookup[i].node, lookup[i].name)

\* C6: on an element whose style attribute declares a name, the cascade
\* leaves the declared value in place whatever rules are loaded, and a lookup
\* of that name on the element returns the declared value.
C6_InlineStyleWins ==
    /\ \A n \in 1..Len(dom), a \in Names :
          (dom[n].applied /\ dom[n].style[a] # "")
          => dom[n].attrib[a] = dom[n].style[a]
    /\ \A i \in DOMAIN lookup :
          IsSet(dom[lookup[i].node].style[lookup[i].name])
          => lookup[i].value = dom[lookup[i].node].style[lookup[i].name]

\* the rect was looked up after the sheet with the id, class and type rules
\* was loaded: its stroke comes from a rule, its fill from its style
C6_Witness ==
    /\ \E k \in 1..Len(rens[1].css_rules) : rens[1].css_rules[k].sel.by = "id"
    /\ \E i \in DOMAIN lookup :
          /\ doc0[lookup[i].node].id = "a"
          /\ lookup[i].name = "fill"
          /\ lookup[i].value = "blue"
          /\ doc0[lookup[i].node].attrib["fill"] = "red"
          /\ dom[lookup[i].node].attrib["stroke"] = "pink"

MainPath == "a.svg"

\* what a path holds: a well-formed document, something etree cannot parse,
\* or nothing readable
File(tree) == [state |-> "ok", tree |-> tree]

Broken == [state |-> "broken", tree |-> Tree(Element, <<>>)]

Missing == [state |-> "missing", tree |-> Tree(Element, <<>>)]

ZipPath == "a.svgz"

\* os.path.splitext(path)[1].lower() == ".svgz"
IsZipped(p) == p = ZipPath

\* a gzip file holding the given file's bytes
Gz(file) == [state |-> "gz", tree |-> file.tree, holds |-> file.state]

\* what gzip.open and shutil.copyfileobj leave in the copy: the bytes of a
\* gzip file, nothing of a file that is no gzip file
Gunzip(file) ==
    IF file.state = "gz" THEN [state |-> file.holds, tree |-> file.tree]
    ELSE Broken

\* path[:-1] of a path that ends in .svgz
Unzipped(p) == IF IsZipped(p) THEN MainPath ELSE p

\* the exception that leaves the with statement of svg2rlg: gzip.open finds
\* no file, or copyfileobj reads something that is no gzip file
UnzipError(fs, p) ==
    IF ~IsZipped(p) THEN ""
    ELSE IF fs[p].state = "missing" THEN "FileNotFoundError"
    ELSE IF fs[p].state # "gz" THEN "BadGzipFile"
    ELSE ""

\* the files after the with statement: open(path[:-1], "wb") has made the
\* copy once gzip.open has found the file
AfterUnzip(fs, p) ==
    IF IsZipped(p) /\ fs[p].state # "missing"
    THEN [fs EXCEPT ![Unzipped(p)] = Gunzip(fs[p])]
    ELSE fs

\* load_svg_file: the root came back, not None
LoadedAlways(file) == TRUE

LoadedOk(file) == file.state = "ok"

\* the elements load_svg_file adds, the root at index first
Parse(file, first) ==
    IF file.state = "ok" THEN Flatten(file.tree, 0, first) ELSE <<>>

\* a reportlab Group or shape made for element n
Shape(typ, n) ==
    [typ |-> typ, node |-> n, contents |-> <<>>, svgid |-> "",
     fill |-> "", stroke |-> "", box |-> <<>>, clip |-> 0]

\* Group.add: None is not added
Add(o, parent, item) ==
    IF item = 0 \/ parent = 0 THEN o
    ELSE [o EXCEPT ![parent].contents = Append(@, item)]

\* item.setProperties({"svgid": nid})
SetId(o, item, nid) ==
    IF item = 0 \/ nid = "" THEN o ELSE [o EXCEPT ![item].svgid = nid]

\* one call in progress: the function, where it stands, its renderer,
\* its element, its group, its item, its loop list and position
Frame ==
    [f |-> "", st |-> "", ren |-> 0, n |-> 0, grp |-> 0, item |-> 0,
     add |-> FALSE, list |-> <<>>, i |-> 0, iters |-> <<>>,
     saved |-> [box |-> <<>>, space |-> FALSE], clipping |-> 0]

RenderFrame(r, n) == [Frame EXCEPT !.f = "render", !.st = "box", !.ren = r, !.n = n]

\* renderSvg without the pass over node.iter_subtree()
SvgFrameNoPass(r, n, kids, outermost) ==
    [Frame EXCEPT !.f = "svg", !.st = "enter", !.ren = r, !.n = n, !.add = outermost,
                  !.list = kids, !.iters = <<>>]

\* renderSvg with iter_subtree about to yield the element itself
SvgFrame(r, n, kids, outermost) ==
    [Frame EXCEPT !.f = "svg", !.st = "enter", !.ren = r, !.n = n, !.add = outermost,
                  !.list = kids, !.iters = <<[list |-> <<n>>, i |-> 1]>>]

\* for child in node.iter_children(): self.renderNode(child, group)
LoopFrame(r, kids, grp) ==
    [Frame EXCEPT !.f = "loop", !.ren = r, !.list = kids, !.i = 1, !.grp = grp]

NodeFrame(r, n, parent) ==
    [Frame EXCEPT !.f = "node", !.st = "start", !.ren = r, !.n = n, !.grp = parent]

UseFrame(r, n, grp) ==
    [Frame EXCEPT !.f = "use", !.st = "start", !.ren = r, !.n = n, !.grp = grp]

Top == stack[Len(stack)]

Pop == SubSeq(stack, 1, Len(stack) - 1)

Replace(fr) == [stack EXCEPT ![Len(stack)] = fr]

ReplacePush(fr, callee) == Append(Replace(fr), callee)

(***************************************************************************)
(* xlink_href_target: what the href of an element resolves to              *)
(***************************************************************************)
Resolved(k, r, t) == [k |-> k, ren |-> r, t |-> t]

ExternalTarget(r, ext, frag) ==
    IF ~ext.made THEN Resolved("make", 0, 0)
    ELSE IF ext.root = 0 THEN Resolved("none", 0, 0)
    ELSE IF frag = "" THEN Resolved("node", ext.ren, ext.root)
    ELSE IF ~ext.rendered THEN Resolved("render", ext.ren, ext.root)
    ELSE IF rens[ext.ren].definitions[frag] = 0 THEN Resolved("none", 0, 0)
    ELSE Resolved("node", ext.ren, rens[ext.ren].definitions[frag])

InternalTarget(r, frag) ==
    IF frag = "" THEN Resolved("none", 0, 0)
    ELSE IF rens[r].definitions[frag] # 0
         THEN Resolved("node", r, rens[r].definitions[frag])
         ELSE Resolved("delayed", 0, 0)

xlink_href_target(r, e) ==
    IF e.href = "" /\ e.file = "" THEN Resolved("none", 0, 0)
    ELSE IF e.file # "" /\ files[e.file].state = "missing" THEN Resolved("none", 0, 0)
    ELSE IF e.file # "" /\ e.file # rens[r].source_path
         THEN IF \E k \in 1..Len(rens[r].parent_chain) : rens[r].parent_chain[k] = e.file
              THEN Resolved("raise", 0, 0)
              ELSE ExternalTarget(r, rens[r].external_svgs[e.file], e.href)
         ELSE InternalTarget(r, e.href)

\* what is put on the waiting list
QueueEntryNoGroup(n, grp) == <<n, 0>>

QueueEntry(n, grp) == <<n, grp>>

(***************************************************************************)
(* svg2rlg and SvgRenderer.render                                          *)
(***************************************************************************)
\* the depth of calls at which Python raises RecursionError
MaxDepth == 12

Running ==
    /\ phase \in {"ResolvingRoot", "WalkingTree"}
    /\ stack # <<>>
    /\ Len(stack) < MaxDepth

\* svg2rlg up to the call of render: load_svg_file, None returned when the
\* root is None, otherwise the SvgRenderer is made
svg2rlg ==
    /\ phase = "Idle"
    /\ files' = AfterUnzip(files, path)
    /\ IF UnzipError(files, path) # ""
       THEN /\ phase' = "Raised"
            /\ error' = UnzipError(files, path)
            /\ UNCHANGED <<dom, doc0, rens, stack, path, unzipped>>
       ELSE /\ path' = Unzipped(path)
            /\ unzipped' = IsZipped(path)
            /\ error' = error
            /\ IF LoadedOk(files'[path'])
               THEN /\ dom' = Parse(files'[path'], 1)
                    /\ doc0' = Parse(files'[path'], 1)
                    /\ rens' = <<SvgRenderer(path', <<>>)>>
                    /\ stack' = <<RenderFrame(1, 1)>>
                    /\ phase' = "ResolvingRoot"
               ELSE /\ phase' = "Failed"
                    /\ UNCHANGED <<dom, doc0, rens, stack>>
    /\ trail' = Append(trail, phase')
    /\ UNCHANGED <<lookup, visited, queueLog, ret, out, drawing, waited>>
    /\ UNCHANGED <<pathVars, funVars>>


\* one entry of queueLog: an (element, group) pair of renderer r is put on
\* a waiting list, taken off with its list, or still there when render ends
QueueOp(op, r, entry) == [op |-> op, ren |-> r, use |-> entry[1], grp |-> entry[2]]

\* to_render = self.waiting_use_nodes.pop(nid)
Takes(r, nid) ==
    IF nid = "" THEN <<>>
    ELSE [i \in 1..Len(rens[r].waiting_use_nodes[nid]) |->
             QueueOp("take", r, rens[r].waiting_use_nodes[nid][i])]

RECURSIVE ReportsOf(_, _)
ReportsOf(r, ids) ==
    IF ids = {} THEN <<>>
    ELSE [i \in 1..Len(rens[r].waiting_use_nodes[CHOOSE x \in ids : TRUE]) |->
             QueueOp("report", r,
                     rens[r].waiting_use_nodes[CHOOSE x \in ids : TRUE][i])]
         \o ReportsOf(r, ids \ {CHOOSE x \in ids : TRUE})

\* for xlink in self.waiting_use_nodes.keys(): logger.debug(...)
Reports(r) == ReportsOf(r, DOMAIN rens[r].waiting_use_nodes)

\* render: the root is wrapped, get_box and set_box, renderSvg is called
render ==
    /\ Running
    /\ Top.f = "render" /\ Top.st = "box"
    /\ IF Top.n \in 1..Len(dom)
       THEN /\ stack' = ReplacePush([Top EXCEPT !.st = "walk"],
                                    SvgFrame(Top.ren, Top.n, dom[Top.n].kids, TRUE))
            /\ phase' = IF Len(stack) = 1 THEN "WalkingTree" ELSE phase
            /\ error' = error
       ELSE /\ stack' = <<>>
            /\ phase' = "Raised"
            /\ error' = "AttributeError"
    /\ rens' = IF Top.n \in 1..Len(dom)
               THEN [rens EXCEPT ![Top.ren] = set_box(@, BoxOf(dom[Top.n]))]
               ELSE rens
    /\ trail' = IF phase' # phase THEN Append(trail, phase') ELSE trail
    /\ UNCHANGED <<dom, doc0, lookup, visited, files, path, unzipped,
                   queueLog, ret, out, drawing, waited>>
    /\ UNCHANGED <<pathVars, funVars>>

\* render after renderSvg returned: the Drawing is made; for the main
\* document svg2rlg returns it, for an external one get_fragment goes on
RenderFinish ==
    /\ Running
    /\ Top.f = "render" /\ Top.st = "walk"
    /\ stack' = Pop
    /\ phase' = IF Len(stack) = 1 THEN "Done" ELSE phase
    /\ drawing' = IF Len(stack) = 1 THEN ret ELSE drawing
    /\ trail' = IF Len(stack) = 1 THEN Append(trail, "Done") ELSE trail
    /\ files' = IF Len(stack) = 1 /\ unzipped
                 THEN [files EXCEPT ![path] = Missing] ELSE files
    /\ queueLog' = queueLog \o Reports(Top.ren)
    /\ UNCHANGED <<dom, doc0, rens, lookup, visited, path, unzipped, error,
                   ret, out, waited>>
    /\ UNCHANGED <<pathVars, funVars>>

\* a call at the depth limit: RecursionError, which nothing catches
RecursionError ==
    /\ phase = "WalkingTree"
    /\ Len(stack) >= MaxDepth
    /\ stack' = <<>>
    /\ phase' = "Raised"
    /\ error' = "RecursionError"
    /\ trail' = Append(trail, "Raised")
    /\ UNCHANGED <<dom, doc0, rens, lookup, visited, files, path, unzipped,
                   queueLog, ret, out, drawing, waited>>
    /\ UNCHANGED <<pathVars, funVars>>

(***************************************************************************)
(* renderSvg                                                               *)
(***************************************************************************)
TopIter == Top.iters[Len(Top.iters)]

\* the iterator stack of iter_subtree after its top iterator moved on
Advanced == [Top.iters EXCEPT ![Len(Top.iters)].i = @ + 1]

\* the first lines of renderSvg: the flag and the box of the caller are kept
\* in locals, the flag and the box of the element are set (a Box is a tuple
\* with four items and counts as true)
SvgEnter ==
    /\ Running
    /\ Top.f = "svg" /\ Top.st = "enter"
    /\ rens' = [rens EXCEPT ![Top.ren] =
                   set_box([@ EXCEPT !.preserve_space = dom[Top.n].space = "preserve"],
                           BoxOf(dom[Top.n]))]
    /\ stack' = Replace([Top EXCEPT !.st = "pre",
                                    !.saved = [box |-> rens[Top.ren].main_box,
                                               space |-> rens[Top.ren].preserve_space]])
    /\ UNCHANGED <<dom, doc0, lookup, visited, files, path, unzipped,
                   queueLog, phase, error, ret, out, drawing, waited, trail>>
    /\ UNCHANGED <<pathVars, funVars>>

\* the definition pass meets a defs element: renderG(def_node), then
\* iter_subtree goes into the children the element had when renderG began
PrepassDefs ==
    /\ Running
    /\ Top.f = "svg" /\ Top.st = "pre" /\ Top.iters # <<>>
    /\ TopIter.i <= Len(TopIter.list)
    /\ dom[TopIter.list[TopIter.i]].kind = "defs"
    /\ out' = Append(out, Shape("Group", TopIter.list[TopIter.i]))
    /\ stack' = ReplacePush(
          [Top EXCEPT !.iters = Append(Advanced,
                                       [list |-> dom[TopIter.list[TopIter.i]].kids,
                                        i |-> 1])],
          LoopFrame(Top.ren, dom[TopIter.list[TopIter.i]].kids, Len(out) + 1))
    /\ UNCHANGED <<dom, doc0, rens, lookup, visited, files, path, unzipped,
                   queueLog, phase, error, ret, drawing, waited, trail>>
    /\ UNCHANGED <<pathVars, funVars>>

\* the definition pass meets any other element and goes into its children,
\* or an iterator is used up
PrepassSkip ==
    /\ Running
    /\ Top.f = "svg" /\ Top.st = "pre" /\ Top.iters # <<>>
    /\ IF TopIter.i > Len(TopIter.list)
       THEN stack' = Replace([Top EXCEPT !.iters = SubSeq(@, 1, Len(@) - 1)])
       ELSE /\ dom[TopIter.list[TopIter.i]].kind # "defs"
            /\ stack' = Replace(
                  [Top EXCEPT !.iters = Append(Advanced,
                                               [list |-> dom[TopIter.list[TopIter.i]].kids,
                                                i |-> 1])])
    /\ UNCHANGED <<dom, doc0, rens, lookup, visited, files, path, unzipped,
                   queueLog, phase, error, ret, out, drawing, waited, trail>>
    /\ UNCHANGED <<pathVars, funVars>>

\* the definition pass is over: group = Group() and the loop over the children
SvgChildren ==
    /\ Running
    /\ Top.f = "svg" /\ Top.st = "pre" /\ Top.iters = <<>>
    /\ out' = Append(out, Shape("Group", Top.n))
    /\ stack' = ReplacePush([Top EXCEPT !.st = "exit", !.item = Len(out) + 1],
                            LoopFrame(Top.ren, Top.list, Len(out) + 1))
    /\ UNCHANGED <<dom, doc0, rens, lookup, visited, files, path, unzipped,
                   queueLog, phase, error, ret, drawing, waited, trail>>
    /\ UNCHANGED <<pathVars, funVars>>

\* the end of renderSvg: the flag and the box of the caller are set again,
\* the group is returned
SvgExit ==
    /\ Running
    /\ Top.f = "svg" /\ Top.st = "exit"
    /\ ret' = Top.item
    /\ stack' = Pop
    /\ rens' = [rens EXCEPT ![Top.ren] =
                   set_box([@ EXCEPT !.preserve_space = Top.saved.space],
                           Top.saved.box)]
    /\ UNCHANGED <<dom, doc0, lookup, visited, files, path, unzipped,
                   queueLog, phase, error, out, drawing, waited, trail>>
    /\ UNCHANGED <<pathVars, funVars>>

\* one turn of a loop over children: renderNode(child, group)
LoopNext ==
    /\ Running
    /\ Top.f = "loop" /\ Top.i <= Len(Top.list)
    /\ stack' = ReplacePush([Top EXCEPT !.i = @ + 1],
                            NodeFrame(Top.ren, Top.list[Top.i], Top.grp))
    /\ UNCHANGED <<dom, doc0, rens, lookup, visited, files, path, unzipped,
                   queueLog, phase, error, ret, out, drawing, waited, trail>>
    /\ UNCHANGED <<pathVars, funVars>>

\* the loop is over: renderG returns (renderSvg goes on)
LoopEnd ==
    /\ Running
    /\ Top.f = "loop" /\ Top.i > Len(Top.list)
    /\ stack' = Pop
    /\ UNCHANGED <<dom, doc0, rens, lookup, visited, files, path, unzipped,
                   queueLog, phase, error, ret, out, drawing, waited, trail>>
    /\ UNCHANGED <<pathVars, funVars>>

(***************************************************************************)
(* renderNode                                                              *)
(***************************************************************************)
IgnoredKinds == {"defs", "title"}

GroupKinds == {"g", "a", "symbol", "clipPath"}

ShapeKinds == {"rect"}

\* the end of renderNode with the waiting list left in place
SettledKeep(R, nid, n, item) ==
    IF nid = "" THEN R
    ELSE IF item # 0 THEN Register(R, nid, n) ELSE R

\* the end of renderNode for an element with an item: the element is
\* registered under its id, the waiting list of the id is taken
Settled(R, nid, n, item) ==
    IF nid = "" THEN R
    ELSE [(IF item # 0 THEN Register(R, nid, n) ELSE R)
             EXCEPT !.waiting_use_nodes[nid] = <<>>]

\* and renderUse is called for each entry of the list, if there is one
TailStack(nid) ==
    IF nid # "" /\ rens[Top.ren].waiting_use_nodes[nid] # <<>>
    THEN Replace([Top EXCEPT !.st = "drain", !.i = 1,
                             !.list = rens[Top.ren].waiting_use_nodes[nid]])
    ELSE Pop

\* get_clippath: the shape of the first child of the registered element the
\* clip-path attribute names, None (0) without attribute, without
\* registered element or without a rect as first child
get_clippath(r, n) ==
    IF dom[n].clip = "" THEN 0
    ELSE IF rens[r].definitions[dom[n].clip] = 0 THEN 0
    ELSE IF dom[rens[r].definitions[dom[n].clip]].kids = <<>> THEN 0
    ELSE IF dom[dom[rens[r].definitions[dom[n].clip]].kids[1]].kind \notin ShapeKinds
         THEN 0
    ELSE dom[rens[r].definitions[dom[n].clip]].kids[1]

\* a group or shape made with a clipping path
Clip(o, item, clipping) ==
    IF clipping = 0 THEN o ELSE [o EXCEPT ![item].clip = clipping]

AtNode(kinds) ==
    /\ Running
    /\ Top.f = "node" /\ Top.st = "start"
    /\ dom[Top.n].kind \in kinds

\* defs and unknown elements: nothing is done
VisitIgnored ==
    /\ AtNode(IgnoredKinds)
    /\ visited' = visited \cup {Top.n}
    /\ stack' = Pop
    /\ UNCHANGED <<dom, doc0, rens, lookup, files, path, unzipped, queueLog,
                   phase, error, ret, out, drawing, waited, trail>>
    /\ UNCHANGED <<pathVars, funVars>>

\* a nested svg: item = self.renderSvg(node)
VisitSvg ==
    /\ AtNode({"svg"})
    /\ visited' = visited \cup {Top.n}
    /\ stack' = ReplacePush([Top EXCEPT !.st = "afterRet", !.add = TRUE],
                            SvgFrame(Top.ren, Top.n, dom[Top.n].kids, FALSE))
    /\ UNCHANGED <<dom, doc0, rens, lookup, files, path, unzipped, queueLog,
                   phase, error, ret, out, drawing, waited, trail>>
    /\ UNCHANGED <<pathVars, funVars>>

\* g, a, symbol, clipPath: display is read, then renderG makes the group
\* and loops over the children
VisitGroup ==
    /\ AtNode(GroupKinds)
    /\ visited' = visited \cup {Top.n}
    /\ out' = Clip(Append(out, Shape("Group", Top.n)), Len(out) + 1,
                   IF dom[Top.n].kind = "g" THEN get_clippath(Top.ren, Top.n) ELSE 0)
    /\ stack' = ReplacePush(
          [Top EXCEPT !.st = "after", !.item = Len(out) + 1,
                      !.add = CASE dom[Top.n].kind = "g" ->
                                       dom[Top.n].attrib["display"] # "none"
                                [] dom[Top.n].kind = "clipPath" -> FALSE
                                [] OTHER -> TRUE],
          LoopFrame(Top.ren, dom[Top.n].kids, Len(out) + 1))
    /\ UNCHANGED <<dom, doc0, rens, lookup, files, path, unzipped, queueLog,
                   phase, error, ret, drawing, waited, trail>>
    /\ UNCHANGED <<pathVars, funVars>>

\* style: renderStyle, no item
VisitStyle ==
    /\ AtNode({"style"})
    /\ visited' = visited \cup {Top.n}
    /\ rens' = [rens EXCEPT ![Top.ren] =
                   Settled(renderStyle(@, dom[Top.n]), dom[Top.n].id, Top.n, 0)]
    /\ stack' = TailStack(dom[Top.n].id)
    /\ queueLog' = queueLog \o Takes(Top.ren, dom[Top.n].id)
    /\ UNCHANGED <<dom, doc0, lookup, files, path, unzipped, phase, error,
                   ret, out, drawing, waited, trail>>
    /\ UNCHANGED <<pathVars, funVars>>

Default(v, d) == IF v = "" THEN d ELSE v

\* the shape convertShape returns for element n after the lookups in log
Converted(typ, n, log) ==
    [Shape(typ, n) EXCEPT !.fill = Default(log[1].value, "black"),
                          !.stroke = Default(log[2].value, "none"),
                          !.box = rens[Top.ren].main_box,
                          !.clip = get_clippath(Top.ren, n)]

\* a shape: convertShape with applyStyleOnShape, display read afterwards,
\* the shape added unless display is none, then the end of renderNode
VisitShape ==
    /\ AtNode(ShapeKinds)
    /\ visited' = visited \cup {Top.n}
    /\ dom' = StyleLookups(dom, rens[Top.ren].css_rules, Top.n, 1, <<>>).dom
    /\ out' = SetId(
          Add(Append(out, Converted("Rect", Top.n,
                        StyleLookups(dom, rens[Top.ren].css_rules, Top.n, 1, <<>>).log)),
              IF dom'[Top.n].attrib["display"] # "none" THEN Top.grp ELSE 0,
              Len(out) + 1),
          Len(out) + 1, dom[Top.n].id)
    /\ rens' = [rens EXCEPT ![Top.ren] = Settled(@, dom[Top.n].id, Top.n, Len(out) + 1)]
    /\ stack' = TailStack(dom[Top.n].id)
    /\ queueLog' = queueLog \o Takes(Top.ren, dom[Top.n].id)
    /\ UNCHANGED <<doc0, lookup, files, path, unzipped, phase, error, ret,
                   drawing, waited, trail>>
    /\ UNCHANGED <<pathVars, funVars>>

\* use: item = self.renderUse(node, clipping=clipping)
VisitUse ==
    /\ AtNode({"use"})
    /\ visited' = visited \cup {Top.n}
    /\ stack' = ReplacePush([Top EXCEPT !.st = "afterRet", !.add = TRUE],
                            [UseFrame(Top.ren, Top.n, 0) EXCEPT
                                !.clipping = get_clippath(Top.ren, Top.n)])
    /\ UNCHANGED <<dom, doc0, rens, lookup, files, path, unzipped, queueLog,
                   phase, error, ret, out, drawing, waited, trail>>
    /\ UNCHANGED <<pathVars, funVars>>

\* the item renderNode holds once the call it made has returned
ItemNow == IF Top.st = "after" THEN Top.item ELSE ret

\* renderNode after renderSvg, renderG or renderUse returned: parent.add
\* (a symbol: only if it carries the _rendered marker, which is set
\* otherwise), then the end of renderNode
AfterCall ==
    /\ Running
    /\ Top.f = "node" /\ Top.st \in {"after", "afterRet"}
    /\ IF dom[Top.n].kind = "symbol" /\ ~dom[Top.n].rendered
       THEN /\ dom' = [dom EXCEPT ![Top.n].rendered = TRUE]
            /\ out' = SetId(out, ItemNow, dom[Top.n].id)
       ELSE /\ dom' = dom
            /\ out' = SetId(Add(out, IF Top.add THEN Top.grp ELSE 0, ItemNow),
                            ItemNow, dom[Top.n].id)
    /\ rens' = [rens EXCEPT ![Top.ren] = Settled(@, dom[Top.n].id, Top.n, ItemNow)]
    /\ stack' = TailStack(dom[Top.n].id)
    /\ queueLog' = queueLog \o Takes(Top.ren, dom[Top.n].id)
    /\ UNCHANGED <<doc0, lookup, visited, files, path, unzipped, phase,
                   error, ret, drawing, waited, trail>>
    /\ UNCHANGED <<pathVars, funVars>>

\* for use_node, group in to_render: self.renderUse(use_node, group=group)
DrainNext ==
    /\ Running
    /\ Top.f = "node" /\ Top.st = "drain" /\ Top.i <= Len(Top.list)
    /\ stack' = ReplacePush([Top EXCEPT !.i = @ + 1],
                            UseFrame(Top.ren, Top.list[Top.i][1], Top.list[Top.i][2]))
    /\ UNCHANGED <<dom, doc0, rens, lookup, visited, files, path, unzipped,
                   queueLog, phase, error, ret, out, drawing, waited, trail>>
    /\ UNCHANGED <<pathVars, funVars>>

DrainEnd ==
    /\ Running
    /\ Top.f = "node" /\ Top.st = "drain" /\ Top.i > Len(Top.list)
    /\ stack' = Pop
    /\ UNCHANGED <<dom, doc0, rens, lookup, visited, files, path, unzipped,
                   queueLog, phase, error, ret, out, drawing, waited, trail>>
    /\ UNCHANGED <<pathVars, funVars>>

(***************************************************************************)
(* renderUse, the image branch of renderNode, ExternalSVG                  *)
(***************************************************************************)
AtUse(k) ==
    /\ Running
    /\ Top.f = "use" /\ Top.st = "start"
    /\ xlink_href_target(Top.ren, dom[Top.n]).k = k

AtImage(k) ==
    /\ AtNode({"image"})
    /\ xlink_href_target(Top.ren, dom[Top.n]).k = k

\* if group is None: group = Group()
UseGroup == IF Top.grp = 0 THEN Len(out) + 1 ELSE Top.grp

UseOut == IF Top.grp = 0 THEN Append(out, Shape("Group", Top.n)) ELSE out

\* ExternalSVG(path, self): the file is loaded, a renderer is made for it
\* with the chain of files that led to it
MakeExternal ==
    /\ \/ AtUse("make")
       \/ AtImage("make")
    /\ dom' = dom \o Parse(files[dom[Top.n].file], Len(dom) + 1)
    /\ rens' = Append(
          [rens EXCEPT ![Top.ren].external_svgs[dom[Top.n].file] =
              [made |-> TRUE,
               root |-> IF LoadedOk(files[dom[Top.n].file]) THEN Len(dom) + 1 ELSE 0,
               ren |-> Len(rens) + 1,
               rendered |-> FALSE]],
          SvgRenderer(dom[Top.n].file,
                      Append(rens[Top.ren].parent_chain, rens[Top.ren].source_path)))
    /\ UNCHANGED <<doc0, lookup, visited, files, path, unzipped, queueLog,
                   phase, error, stack, ret, out, drawing, waited, trail>>
    /\ UNCHANGED <<pathVars, funVars>>

\* no href, an unreadable file, a file that would not load, a fragment the
\* external file does not define: renderUse returns None
UseNone ==
    /\ AtUse("none")
    /\ ret' = 0
    /\ stack' = Pop
    /\ UNCHANGED <<dom, doc0, rens, lookup, visited, files, path, unzipped,
                   queueLog, phase, error, out, drawing, waited, trail>>
    /\ UNCHANGED <<pathVars, funVars>>

\* the fragment is not registered yet: the element and its group are put on
\* the waiting list of the fragment and the group is returned as it is
UseDelayed ==
    /\ AtUse("delayed")
    /\ out' = UseOut
    /\ rens' = [rens EXCEPT ![Top.ren].waiting_use_nodes[dom[Top.n].href] =
                   Append(@, QueueEntry(Top.n, UseGroup))]
    /\ waited' = waited \cup {<<Top.ren, Top.n, UseGroup>>}
    /\ ret' = UseGroup
    /\ stack' = Pop
    /\ queueLog' = Append(queueLog, QueueOp("put", Top.ren,
                                             QueueEntry(Top.n, UseGroup)))
    /\ UNCHANGED <<dom, doc0, lookup, visited, files, path, unzipped, phase,
                   error, drawing, trail>>
    /\ UNCHANGED <<pathVars, funVars>>

\* the file is in the chain of files being rendered: CircularRefError is
\* raised and caught in renderUse, the use element is removed from its parent
UseCircular ==
    /\ AtUse("raise")
    /\ out' = UseOut
    /\ dom' = RemoveNode(dom, Top.n)
    /\ ret' = UseGroup
    /\ stack' = Pop
    /\ UNCHANGED <<doc0, rens, lookup, visited, files, path, unzipped,
                   queueLog, phase, error, drawing, waited, trail>>
    /\ UNCHANGED <<pathVars, funVars>>

\* a fragment of an external file not rendered yet: get_fragment calls
\* render on the root of the file
UseRender ==
    /\ AtUse("render")
    /\ out' = UseOut
    /\ stack' = ReplacePush(
          [Top EXCEPT !.st = "frag", !.grp = UseGroup],
          RenderFrame(xlink_href_target(Top.ren, dom[Top.n]).ren,
                      xlink_href_target(Top.ren, dom[Top.n]).t))
    /\ UNCHANGED <<dom, doc0, rens, lookup, visited, files, path, unzipped,
                   queueLog, phase, error, ret, drawing, waited, trail>>
    /\ UNCHANGED <<pathVars, funVars>>

\* render returned to get_fragment: self.rendered = True, then the fragment
\* is looked up
FragmentRendered ==
    /\ Running
    /\ \/ Top.f = "use" /\ Top.st = "frag"
       \/ Top.f = "node" /\ Top.st = "frag"
    /\ rens' = [rens EXCEPT ![Top.ren].external_svgs[dom[Top.n].file].rendered = TRUE]
    /\ stack' = Replace([Top EXCEPT !.st = "start"])
    /\ UNCHANGED <<dom, doc0, lookup, visited, files, path, unzipped,
                   queueLog, phase, error, ret, out, drawing, waited, trail>>
    /\ UNCHANGED <<pathVars, funVars>>

\* the target is there: a copy of it is appended to the use element unless
\* the element has children, and the last child is rendered into the group
UseInstance ==
    /\ AtUse("node")
    /\ out' = Clip(UseOut, UseGroup, Top.clipping)
    /\ dom' = IF dom[Top.n].kids = <<>>
              THEN AppendCopy(dom, Top.n, xlink_href_target(Top.ren, dom[Top.n]).t)
              ELSE dom
    /\ stack' = ReplacePush(
          [Top EXCEPT !.st = "end", !.grp = UseGroup],
          NodeFrame(Top.ren, dom'[Top.n].kids[Len(dom'[Top.n].kids)], UseGroup))
    /\ UNCHANGED <<doc0, rens, lookup, visited, files, path, unzipped,
                   queueLog, phase, error, ret, drawing, waited, trail>>
    /\ UNCHANGED <<pathVars, funVars>>

\* apply_node_attr_to_group, return group
UseEnd ==
    /\ Running
    /\ Top.f = "use" /\ Top.st = "end"
    /\ ret' = Top.grp
    /\ stack' = Pop
    /\ UNCHANGED <<dom, doc0, rens, lookup, visited, files, path, unzipped,
                   queueLog, phase, error, out, drawing, waited, trail>>
    /\ UNCHANGED <<pathVars, funVars>>

\* image, target None: renderNode returns
ImageNone ==
    /\ AtImage("none")
    /\ visited' = visited \cup {Top.n}
    /\ stack' = Pop
    /\ UNCHANGED <<dom, doc0, rens, lookup, files, path, unzipped, queueLog,
                   phase, error, ret, out, drawing, waited, trail>>
    /\ UNCHANGED <<pathVars, funVars>>

\* the calls of renderUse that are inside their try block
Catchers == {j \in 1..Len(stack) - 1 : stack[j].f = "use" /\ stack[j].st = "frag"}

Catcher == CHOOSE j \in Catchers : \A k \in Catchers : k <= j

\* image, the file is in the chain of files being rendered: CircularRefError
\* is raised in the image branch, where nothing catches it; it leaves every
\* call up to the innermost renderUse whose get_fragment is running, which
\* removes its use element, or it leaves svg2rlg
ImageCircular ==
    /\ AtImage("raise")
    /\ visited' = visited \cup {Top.n}
    /\ IF Catchers = {}
       THEN /\ stack' = <<>>
            /\ phase' = "Raised"
            /\ error' = "CircularRefError"
            /\ trail' = Append(trail, "Raised")
            /\ UNCHANGED <<dom, ret>>
       ELSE /\ dom' = RemoveNode(dom, stack[Catcher].n)
            /\ ret' = stack[Catcher].grp
            /\ stack' = SubSeq(stack, 1, Catcher - 1)
            /\ UNCHANGED <<phase, error, trail>>
    /\ UNCHANGED <<doc0, rens, lookup, files, path, unzipped, queueLog, out,
                   drawing, waited>>
    /\ UNCHANGED <<pathVars, funVars>>

\* image, a fragment of an external file not rendered yet
ImageRender ==
    /\ AtImage("render")
    /\ visited' = visited \cup {Top.n}
    /\ stack' = ReplacePush(
          [Top EXCEPT !.st = "frag"],
          RenderFrame(xlink_href_target(Top.ren, dom[Top.n]).ren,
                      xlink_href_target(Top.ren, dom[Top.n]).t))
    /\ UNCHANGED <<dom, doc0, rens, lookup, files, path, unzipped, queueLog,
                   phase, error, ret, out, drawing, waited, trail>>
    /\ UNCHANGED <<pathVars, funVars>>

\* image, the target is SVG content: gr = Group() and the renderer of the
\* target renders the target into it
ImageInstance ==
    /\ AtImage("node")
    /\ visited' = visited \cup {Top.n}
    /\ out' = Append(out, Shape("Group", Top.n))
    /\ stack' = ReplacePush(
          [Top EXCEPT !.st = "imgEnd", !.item = Len(out) + 1],
          NodeFrame(xlink_href_target(Top.ren, dom[Top.n]).ren,
                    xlink_href_target(Top.ren, dom[Top.n]).t, Len(out) + 1))
    /\ UNCHANGED <<dom, doc0, rens, lookup, files, path, unzipped, queueLog,
                   phase, error, ret, drawing, waited, trail>>
    /\ UNCHANGED <<pathVars, funVars>>

\* apply_node_attr_to_group, parent.add(gr), return: the image is neither
\* registered nor is a waiting list taken
ImageEnd ==
    /\ Running
    /\ Top.f = "node" /\ Top.st = "imgEnd"
    /\ out' = Add(out, Top.grp, Top.item)
    /\ stack' = Pop
    /\ UNCHANGED <<dom, doc0, rens, lookup, visited, files, path, unzipped,
                   queueLog, phase, error, ret, drawing, waited, trail>>
    /\ UNCHANGED <<pathVars, funVars>>

(***************************************************************************)
(* Spec: svg2rlg on a.svg, a document of up to MaxTop elements under the   *)
(* root, next to a file b.svg                                              *)
(***************************************************************************)
MaxTop == 2

El(kind, id) == [Element EXCEPT !.kind = kind, !.id = id]

Use(frag) == [Element EXCEPT !.kind = "use", !.href = frag]

External(kind, file, frag) ==
    [Element EXCEPT !.kind = kind, !.file = file, !.href = frag]

Leaf(e) == Tree(e, <<>>)

\* the sides of the boxes of the root, of an svg in it and of an svg in that
RootSize == 100

NestedSize == 15

InnerSize == NestedSize + NestedSize

Sized(e, side) == [e EXCEPT !.size = side]

\* the elements a document is put together from
Items ==
    { Leaf(El("rect", "a")),
      Leaf(El("rect", "b")),
      Leaf(Use("a")),
      Leaf(Use("b")),
      Tree(El("g", "a"), <<Leaf(Use("a"))>>),
      Tree(El("g", "a"), <<Leaf(Use("b"))>>),
      Tree(El("g", "b"), <<Leaf(Use("a"))>>),
      Tree(El("defs", ""), <<Leaf(El("rect", "a"))>>),
      Tree(El("symbol", "b"), <<Leaf(El("rect", ""))>>),
      Tree(El("g", "a"), <<Tree(El("symbol", "b"), <<Leaf(El("rect", ""))>>)>>),
      Tree(Sized(El("svg", ""), NestedSize), <<Leaf(El("rect", "b"))>>),
      Leaf([El("style", "a") EXCEPT !.text = <<Rule("kind", "rect", "fill", "pink")>>]),
      Leaf(External("use", "b.svg", "c")),
      Leaf(External("image", "b.svg", "")),
      Leaf(External("image", "b.svg", "c")) }

Document(items) == File(Tree(Sized(El("svg", ""), RootSize), items))

\* an svg in an svg in the root, a rect before, in and after each
NestedFiles ==
    { Document(<<Leaf(El("rect", "")),
                 Tree([Sized(El("svg", ""), NestedSize) EXCEPT !.space = "preserve"],
                      <<Leaf(El("rect", "")),
                        Tree(Sized(El("svg", ""), InnerSize), <<Leaf(El("rect", ""))>>),
                        Leaf(El("rect", ""))>>),
                 Leaf(El("rect", ""))>>) }

\* display: none as an attribute or as a declaration of the style attribute
Hidden(e, how) ==
    IF how = "attribute" THEN [e EXCEPT !.attrib["display"] = "none"]
    ELSE [e EXCEPT !.style["display"] = "none"]

HiddenFiles ==
    UNION { { Document(<<Leaf(Use("a")), Leaf(Hidden(El("rect", "a"), how))>>),
              Document(<<Leaf(Use("b")),
                         Tree(Hidden(El("g", "a"), how), <<Leaf(El("rect", "b"))>>)>>) } :
            how \in {"attribute", "style"} }

ClipPath(id) == Tree(El("clipPath", id), <<Leaf(El("rect", ""))>>)

Clipped(e, id) == [e EXCEPT !.clip = id]

\* a use element with a clip-path after and before its target
ClipFiles ==
    { File(Tree(Sized(El("svg", ""), RootSize),
                <<ClipPath("c"), Leaf(El("rect", "a")), Leaf(Clipped(Use("a"), "c"))>>)),
      File(Tree(Sized(El("svg", ""), RootSize),
                <<ClipPath("c"), Leaf(Clipped(Use("a"), "c")), Leaf(El("rect", "a"))>>)) }

\* a use element with a child of its own after its target
ParentFiles ==
    { Document(<<Leaf(El("rect", "a")),
                 Tree(Use("a"), <<Leaf(El("title", ""))>>)>>) }

\* documents with elements that Items does not have
SpecialFiles ==
    { Document(<<Tree(El("defs", ""), <<Leaf(Use("a"))>>),
                 Tree(El("defs", ""), <<Leaf(El("rect", "a"))>>)>>),
      Document(<<Leaf(El("rect", "a")),
                 Tree(El("defs", ""),
                      <<Leaf([El("style", "") EXCEPT
                                !.text = <<Rule("kind", "rect", "fill", "pink")>>])>>)>>) }

MainFiles ==
    {Broken}
        \cup { Document(items) : items \in UNION {[1..k -> Items] : k \in 1..MaxTop} }
        \cup SpecialFiles
        \cup HiddenFiles
        \cup NestedFiles
        \cup ClipFiles
        \cup ParentFiles

\* what a.svgz can be when it is the input: nothing, something that is no
\* gzip file, or the gzip of what a.svg can be with one element
ZippedFiles ==
    {Missing, Broken}
        \cup { Gz(f) : f \in {Broken} \cup { Document(<<i>>) : i \in Items } }

AllPaths == Paths \cup {ZipPath}

OtherPath == "b.svg"

\* a.svg refers to b.svg and to c.svg, and c.svg refers to b.svg as well
SharedFiles ==
    { [p \in AllPaths |->
         CASE p = MainPath ->
                 Document(<<Leaf(External("use", "b.svg", "c")),
                            Leaf(External(k, "c.svg", ""))>>)
           [] p = "b.svg" -> Document(<<Leaf(El("rect", "c"))>>)
           [] p = "c.svg" -> Document(<<Leaf(External("use", "b.svg", "c"))>>)
           [] OTHER -> Missing] : k \in {"image", "use"} }

\* what b.svg can be
ExternalFiles ==
    { Missing,
      Broken,
      Document(<<Leaf(El("rect", "c"))>>),
      Document(<<Leaf(El("rect", "c")), Leaf(External("use", "a.svg", "a"))>>),
      Document(<<Leaf(El("rect", "c")), Leaf(External("image", "a.svg", ""))>>) }

RefersOut(file) ==
    \E i \in 1..Len(file.tree.sub) : file.tree.sub[i].e.file # ""

Init ==
    /\ IdlePath
    /\ IdleFun
    /\ IdleTree
    /\ \/ \E main \in MainFiles, other \in ExternalFiles :
             /\ RefersOut(main) \/ other = Missing
             /\ files = [p \in AllPaths |->
                            IF p = MainPath THEN main
                            ELSE IF p = OtherPath THEN other ELSE Missing]
             /\ path = MainPath
       \/ /\ files \in SharedFiles
          /\ path = MainPath
       \/ \E zipped \in ZippedFiles :
             /\ files = [p \in AllPaths |->
                            IF p = ZipPath THEN zipped ELSE Missing]
             /\ path = ZipPath
    /\ unzipped = FALSE
    /\ queueLog = <<>>
    /\ phase = "Idle"
    /\ error = ""
    /\ stack = <<>>
    /\ ret = 0
    /\ out = <<>>
    /\ drawing = 0
    /\ waited = {}
    /\ trail = <<"Idle">>

Next ==
    \/ svg2rlg
    \/ render
    \/ RenderFinish
    \/ RecursionError
    \/ SvgEnter
    \/ PrepassDefs
    \/ PrepassSkip
    \/ SvgChildren
    \/ SvgExit
    \/ LoopNext
    \/ LoopEnd
    \/ VisitIgnored
    \/ VisitSvg
    \/ VisitGroup
    \/ VisitStyle
    \/ VisitShape
    \/ VisitUse
    \/ AfterCall
    \/ DrainNext
    \/ DrainEnd
    \/ MakeExternal
    \/ UseNone
    \/ UseDelayed
    \/ UseCircular
    \/ UseRender
    \/ FragmentRendered
    \/ UseInstance
    \/ UseEnd
    \/ ImageNone
    \/ ImageCircular
    \/ ImageRender
    \/ ImageInstance
    \/ ImageEnd

Spec == Init /\ [][Next]_vars

(***************************************************************************)
(* Walk claims                                                             *)
(***************************************************************************)
SeqSet(q) == {q[i] : i \in 1..Len(q)}

\* the fragments the use elements at or below elements with id x point to
RefsOf(x) ==
    { doc0[u].href : u \in { u \in 1..Len(doc0) :
          /\ doc0[u].kind = "use" /\ doc0[u].file = "" /\ doc0[u].href # ""
          /\ \E n \in 1..Len(doc0) : doc0[n].id = x /\ u \in SeqSet(Subtree(doc0, n)) } }

More(S) == S \cup UNION { RefsOf(y) : y \in S }

\* some element of the main document reaches itself through use references
UseCycle == \E x \in Ids : x \in More(More(RefsOf(x)))

\* C1: a document whose use references form a cycle is converted to the
\* end: the walk does not run into the recursion limit.
C1_UseCycleTerminates ==
    UseCycle => ~(phase = "Raised" /\ error = "RecursionError")

\* an element that leaves an item in its parent group when rendered
Visible(c) ==
    /\ dom[c].kind \in {"rect", "g", "symbol", "svg", "use"}
    /\ dom[c].attrib["display"] # "none"

LastKid(u) == dom[u].kids[Len(dom[u].kids)]

\* the contents of every group that holds g follow the document order of
\* their elements
InPlace(g) ==
    /\ \E p \in 1..Len(out) : g \in SeqSet(out[p].contents)
    /\ \A p \in 1..Len(out) :
          g \in SeqSet(out[p].contents)
          => \A i, j \in 1..Len(out[p].contents) :
                i < j => out[out[p].contents[i]].node < out[out[p].contents[j]].node

\* C2: a use element visited before its target was registered is resolved
\* when the target is registered: the group made at the visit sits at the
\* place of the use element among its siblings and holds the rendering of
\* the copy of the target.
C2_ForwardUseFilled ==
    phase = "Done"
    => \A w \in waited :
          (/\ rens[w[1]].definitions[dom[w[2]].href] # 0
           /\ Visible(rens[w[1]].definitions[dom[w[2]].href]))
          => /\ dom[w[2]].kids # <<>>
             /\ out[w[3]].node = w[2]
             /\ Len(out[w[3]].contents) = 1
             /\ out[out[w[3]].contents[1]].node = LastKid(w[2])
             /\ InPlace(w[3])

\* <use href="#a"/> followed by the element with id a: the use group is the
\* first of two items of the main group and holds the copy
C2_Witness ==
    /\ phase = "Done"
    /\ \E w \in waited :
          /\ rens[w[1]].definitions[dom[w[2]].href] # 0
          /\ Len(out[drawing].contents) = 2
          /\ out[drawing].contents[1] = w[3]
          /\ out[w[3]].contents # <<>>
          /\ out[out[w[3]].contents[1]].typ = "Rect"

Lifecycle ==
    { <<"Idle">>,
      <<"Idle", "Failed">>,
      <<"Idle", "ResolvingRoot">>,
      <<"Idle", "ResolvingRoot", "WalkingTree">>,
      <<"Idle", "ResolvingRoot", "WalkingTree", "Done">>,
      <<"Idle", "ResolvingRoot", "WalkingTree", "Raised">> }

\* C3: a conversion goes through Idle, ResolvingRoot, WalkingTree, Done in
\* that order; a main document that cannot be loaded ends it in Failed
\* straight from Idle: None is returned, no renderer is made, no element is
\* visited.
C3_Lifecycle ==
    /\ trail \in Lifecycle
    /\ phase = trail[Len(trail)]
    /\ files[MainPath].state # "ok"
       => /\ phase \in {"Idle", "Failed"}
          /\ rens = <<>> /\ dom = <<>> /\ visited = {} /\ out = <<>>
          /\ stack = <<>> /\ drawing = 0
    /\ phase = "Failed" => files[MainPath].state # "ok"
    /\ phase = "Done" => drawing # 0 /\ stack = <<>>
    /\ visited # {} => phase \in {"WalkingTree", "Done", "Raised"}

C3_Witness == phase = "Failed" /\ trail = <<"Idle", "Failed">>

\* C4: a file referenced by a file that it references itself never makes
\* the conversion of the main document fail: no CircularRefError leaves
\* svg2rlg.
C4_ExternalCyclePruned ==
    ~(phase = "Raised" /\ error = "CircularRefError")

\* without a cycle of use references the walk stays below the depth limit
DepthSuffices == UseCycle \/ Len(stack) < MaxDepth

(***************************************************************************)
(* AttributeConverter.convertTransform (svglib.py 347-397)                  *)
(***************************************************************************)
RECURSIVE LStrip(_)
LStrip(s) == IF s # <<>> /\ s[1] = " " THEN LStrip(Tail(s)) ELSE s

RECURSIVE RStrip(_)
RStrip(s) ==
    IF s # <<>> /\ s[Len(s)] = " " THEN RStrip(SubSeq(s, 1, Len(s) - 1)) ELSE s

\* str.strip()
Strip(s) == RStrip(LStrip(s))

\* str.replace(",", " ")
CommasToSpaces(s) == [i \in 1..Len(s) |-> IF s[i] = "," THEN " " ELSE s[i]]

RECURSIVE SpacesToComma(_, _)
\* re.sub("[ ]+", ",", s): every run of spaces becomes one comma
SpacesToComma(s, i) ==
    IF i > Len(s) THEN <<>>
    ELSE IF s[i] # " " THEN <<s[i]>> \o SpacesToComma(s, i + 1)
    ELSE IF i > 1 /\ s[i - 1] = " " THEN SpacesToComma(s, i + 1)
    ELSE <<",">> \o SpacesToComma(s, i + 1)

RECURSIVE SplitAt(_, _, _, _)
\* str.split(c): the pieces between the occurrences of c, empty ones kept
SplitAt(s, c, i, piece) ==
    IF i > Len(s) THEN <<piece>>
    ELSE IF s[i] = c THEN <<piece>> \o SplitAt(s, c, i + 1, <<>>)
    ELSE SplitAt(s, c, i + 1, Append(piece, s[i]))

\* str.split(): the pieces between runs of whitespace, none of them empty
SplitBlank(s) == SelectSeq(SplitAt(s, " ", 1, <<>>), LAMBDA w : w # <<>>)

Unsigned(tok) == IF tok # <<>> /\ tok[1] \in {"-", "+"} THEN Tail(tok) ELSE tok

\* whether float(tok) returns: a sign, digits and at most one point, with at
\* least one digit (exponents, inf and nan are outside the alphabet)
PyFloatOk(tok) ==
    /\ \A i \in 1..Len(Unsigned(tok)) : Unsigned(tok)[i] \in Digits \cup {"."}
    /\ Cardinality({i \in 1..Len(Unsigned(tok)) : Unsigned(tok)[i] = "."}) <= 1
    /\ \E i \in 1..Len(Unsigned(tok)) : Unsigned(tok)[i] \in Digits

\* float(tok), in tenths
PyFloat(tok) == IF tok[1] = "+" THEN FloatOf(Tail(tok)) ELSE FloatOf(tok)

\* the text between two brackets after strip, replace and re.sub
Subline(line, bi, bj) ==
    SpacesToComma(CommasToSpaces(Strip(SubSeq(line, bi + 1, bj - 1))), 1)

\* the try block: a tuple of floats when the subline holds a comma, one float
\* otherwise; ValueError when some float() raises
ParseIndex(sub) ==
    [ok |-> \A i \in 1..Len(SplitAt(sub, ",", 1, <<>>)) :
                PyFloatOk(SplitAt(sub, ",", 1, <<>>)[i]),
     tuple |-> \E i \in 1..Len(sub) : sub[i] = ",",
     nums |-> [i \in 1..Len(SplitAt(sub, ",", 1, <<>>)) |->
                 IF PyFloatOk(SplitAt(sub, ",", 1, <<>>)[i])
                 THEN PyFloat(SplitAt(sub, ",", 1, <<>>)[i]) ELSE 0]]

\* ops[:bi] + " " * (bj - bi + 1) + ops[bj + 1:]
BlankOut(text, bi, bj) ==
    [i \in 1..Len(text) |-> IF i >= bi /\ i <= bj THEN " " ELSE text[i]]

\* the positions of "(" and ")" in the line, in order
Brackets(line) ==
    SelectSeq([i \in 1..Len(line) |-> i], LAMBDA i : line[i] \in {"(", ")"})

RECURSIVE BracketLoop(_, _, _, _, _)
BracketStep(line, brackets, i, text, indices, idx) ==
    IF idx.ok
    THEN BracketLoop(line, brackets, i + 2,
                     BlankOut(text, brackets[i], brackets[i + 1]),
                     Append(indices, [tuple |-> idx.tuple, nums |-> idx.nums]))
    ELSE BracketLoop(line, brackets, i + 2, text, indices)

\* for i in range(0, len(brackets), 2): brackets[i + 1] raises IndexError
\* when the number of brackets is odd
BracketLoop(line, brackets, i, text, indices) ==
    IF i > Len(brackets)
    THEN [raised |-> "", text |-> text, indices |-> indices]
    ELSE IF i + 1 > Len(brackets)
    THEN [raised |-> "IndexError", text |-> text, indices |-> indices]
    ELSE BracketStep(line, brackets, i, text, indices,
                     ParseIndex(Subline(line, brackets[i], brackets[i + 1])))

\* the end of convertTransform: the empty list when the counts differ
PairUp(ops_list, indices) ==
    IF Len(ops_list) # Len(indices) THEN <<>>
    ELSE [i \in 1..Len(ops_list) |-> [op |-> ops_list[i], args |-> indices[i]]]

TransformResult(r) ==
    IF r.raised # ""
    THEN [done |-> TRUE, raised |-> r.raised, value |-> <<>>]
    ELSE [done |-> TRUE, raised |-> "",
          value |-> PairUp(SplitBlank(CommasToSpaces(r.text)), r.indices)]

convertTransform(svgAttr) ==
    TransformResult(BracketLoop(Strip(svgAttr), Brackets(Strip(svgAttr)), 1,
                                Strip(svgAttr), <<>>))

(***************************************************************************)
(* Svg2RlgShapeConverter.convertPath from the path object to the group     *)
(* it returns (svglib.py 1619-1639)                                        *)
(***************************************************************************)
ColorNames == {"red", "black"}

\* convertColor: None for an empty value, "none" and what is no colour
convertColor(svgAttr) == IF svgAttr \in ColorNames THEN svgAttr ELSE "None"

\* applyStyleOnShape for fillColor: the default is black
FillColor(fill) == convertColor(IF fill = "" THEN "black" ELSE fill)

PathShape(typ, operators, points, fillColor) ==
    [typ |-> typ, operators |-> operators, points |-> points,
     fillColor |-> fillColor]

\* list.insert(pointer, x)
InsertAt(seq, pointer, x) ==
    SubSeq(seq, 1, pointer) \o <<x>> \o SubSeq(seq, pointer + 1, Len(seq))

RECURSIVE InsertForward(_, _, _, _)
InsertForward(operators, pointers, j, i) ==
    IF j > i THEN operators
    ELSE InsertForward(InsertAt(operators, pointers[j], "closePath"),
                       pointers, j + 1, i)

\* the pointers taken first to last, each insertion shifting the later ones
CloseAllForward(operators, pointers, i) ==
    InsertForward(operators, pointers, 1, i)

RECURSIVE CloseAll(_, _, _)
\* for pointer in reversed(unclosed_subpath_pointers): insert a closePath
CloseAll(operators, pointers, i) ==
    IF i = 0 THEN operators
    ELSE CloseAll(InsertAt(operators, pointers[i], "closePath"), pointers, i - 1)

\* gr.add(closed_path) when there is a fill and an open subpath, gr.add(path)
PathGroup(shape, fillColor) ==
    IF shape.unclosed # <<>> /\ fillColor # "None"
    THEN <<PathShape("NoStrokePath",
                     CloseAll(shape.operators, shape.unclosed, Len(shape.unclosed)),
                     shape.points, fillColor),
           PathShape("Path", shape.operators, shape.points, "None")>>
    ELSE <<PathShape("Path", shape.operators, shape.points, fillColor)>>

\* convertPath(node) with the node's d and the fill findAttr gives
convertPathGroup(d, fill) ==
    IF convertPath(d).none
    THEN [done |-> TRUE, raised |-> "", none |-> TRUE, contents |-> <<>>]
    ELSE IF convertPath(d).raised
    THEN [done |-> TRUE, raised |-> "Error", none |-> FALSE, contents |-> <<>>]
    ELSE [done |-> TRUE, raised |-> "", none |-> FALSE,
          contents |-> PathGroup(convertPath(d).path, FillColor(fill))]

(***************************************************************************)
(* Elliptical arcs: the "A"/"a" branch of convertPath (svglib.py 1596-1609) *)
(* and utils.py bezier_arc_from_end_points, end_point_to_center_parameters, *)
(* bezier_arc_from_centre, vector_angle.  Numbers are integers; angles are  *)
(* multiples of 90 degrees, where sine and cosine are exact, and the arcs   *)
(* of the model are circular with an axis-parallel chord at least as long   *)
(* as the diameter, where the square roots are exact.  Of a Bezier segment  *)
(* the start and end point are kept, the two control points are left out.   *)
(***************************************************************************)
Abs(v) == IF v < 0 THEN 0 - v ELSE v

Cos90(deg) ==
    CASE deg % 360 = 0 -> 1 [] deg % 360 = 180 -> 0 - 1 [] OTHER -> 0

Sin90(deg) ==
    CASE deg % 360 = 90 -> 1 [] deg % 360 = 270 -> 0 - 1 [] OTHER -> 0

\* transformPoint(rotate(deg), p)
Rotated(deg, p) ==
    <<Cos90(deg) * p[1] - Sin90(deg) * p[2],
      Sin90(deg) * p[1] + Cos90(deg) * p[2]>>

\* vector_angle(u, v) for axis-parallel vectors: 0 for a zero vector, else
\* the signed angle, 180 for opposite vectors
vector_angle(u, v) ==
    IF (u[1] = 0 /\ u[2] = 0) \/ (v[1] = 0 /\ v[2] = 0) THEN 0
    ELSE IF u[1] * v[1] + u[2] * v[2] > 0 THEN 0
    ELSE IF u[1] * v[1] + u[2] * v[2] < 0 THEN 180
    ELSE IF u[1] * v[2] - u[2] * v[1] > 0 THEN 90 ELSE 0 - 90

\* r > 1 in step 2, with dx = x1 - x2 = 2 * x1d and dy = 2 * y1d
TooSmall(dx, dy, rx, ry) ==
    dx * dx * ry * ry + dy * dy * rx * rx > 4 * rx * rx * ry * ry

\* the radius after "rx *= sqrt(r)": half the chord, for a circle with an
\* axis-parallel chord
Grown(dx, dy, rx) == IF TooSmall(dx, dy, rx, rx) THEN (Abs(dx) + Abs(dy)) \div 2 ELSE rx

\* dtheta after "% 360" and the correction by the sweep flag
Sweep(fS, dtheta) ==
    IF fS = 0 /\ dtheta > 0 THEN dtheta - 360
    ELSE IF fS = 1 /\ dtheta < 0 THEN dtheta + 360
    ELSE dtheta

\* end_point_to_center_parameters(x1, y1, x2, y2, fA, fS, rx, ry), called
\* without phi: x1d * x1d / (rx * rx) raises ZeroDivisionError for a zero
\* radius; r is 0 after step 2 (identical points, or a chord that is a
\* diameter), so the centre is the middle of the chord
end_point_to_center_parameters(x1, y1, x2, y2, fA, fS, rx, ry) ==
    IF rx = 0 \/ ry = 0
    THEN [raised |-> "ZeroDivisionError"]
    ELSE [raised |-> "",
          cx |-> (x1 + x2) \div 2, cy |-> (y1 + y2) \div 2,
          rx |-> Grown(x1 - x2, y1 - y2, Abs(rx)),
          ry |-> Grown(x1 - x2, y1 - y2, Abs(ry)),
          start_ang |-> 0 - vector_angle(<<1, 0>>, <<x1 - x2, y1 - y2>>),
          extent |-> 0 - Sweep(fS, vector_angle(<<x1 - x2, y1 - y2>>,
                                                <<x2 - x1, y2 - y1>>) % 360)]

\* ceil(abs(extent) / 90)
Fragments(extent) ==
    IF Abs(extent) <= 90 THEN 1 ELSE (Abs(extent) + 89) \div 90

\* bezier_arc_from_centre: no segment for a zero extent, else nfrag segments
bezier_arc_from_centre(cx, cy, rx, ry, start_ang, extent) ==
    IF extent \div Fragments(extent) = 0 THEN <<>>
    ELSE [i \in 1..Fragments(extent) |->
            [from |-> <<cx + rx * Cos90(start_ang + (i - 1) * (extent \div Fragments(extent))),
                        cy - ry * Sin90(start_ang + (i - 1) * (extent \div Fragments(extent)))>>,
             to |-> <<cx + rx * Cos90(start_ang + i * (extent \div Fragments(extent))),
                      cy - ry * Sin90(start_ang + i * (extent \div Fragments(extent)))>>]]

ArcFromCentre(c) ==
    IF c.raised # "" THEN [raised |-> c.raised, segs |-> <<>>]
    ELSE [raised |-> "",
          segs |-> bezier_arc_from_centre(c.cx, c.cy, c.rx, c.ry,
                                          c.start_ang, c.extent)]

\* transformPoint(mmult(translate(x1, y1), rotate(phi)), p) on every point
TurnedBack(arc, x1, y1, phi) ==
    [raised |-> arc.raised,
     segs |-> [i \in 1..Len(arc.segs) |->
                 [from |-> <<x1 + Rotated(phi, arc.segs[i].from)[1],
                             y1 + Rotated(phi, arc.segs[i].from)[2]>>,
                  to |-> <<x1 + Rotated(phi, arc.segs[i].to)[1],
                           y1 + Rotated(phi, arc.segs[i].to)[2]>>]]]

\* the end point seen from the start point, turned by -phi
Turned(x1, y1, phi, x2, y2) == Rotated(0 - phi, <<x2 - x1, y2 - y1>>)

bezier_arc_from_end_points(x1, y1, rx, ry, phi, fA, fS, x2, y2) ==
    IF x1 = x2 /\ y1 = y2 THEN [raised |-> "", segs |-> <<>>]
    ELSE IF phi # 0
    THEN TurnedBack(ArcFromCentre(end_point_to_center_parameters(
                        0, 0, Turned(x1, y1, phi, x2, y2)[1],
                        Turned(x1, y1, phi, x2, y2)[2], fA, fS, rx, ry)),
                    x1, y1, phi)
    ELSE ArcFromCentre(end_point_to_center_parameters(x1, y1, x2, y2,
                                                      fA, fS, rx, ry))

\* abs(rx) <= 1e-10 and abs(ry) <= 1e-10
ZeroRadiusBoth(rx, ry) == rx = 0 /\ ry = 0

\* abs(rx) <= 1e-10 or abs(ry) <= 1e-10
ZeroRadius(rx, ry) == rx = 0 \/ ry = 0

\* for _, _, x1, y1, x2, y2, xn, yn in bp: path.curveTo(...)
CurvesAdded(arc) ==
    [done |-> TRUE, raised |-> arc.raised,
     operators |-> [i \in 1..Len(arc.segs) |-> "curveTo"],
     ends |-> [i \in 1..Len(arc.segs) |-> arc.segs[i].to]]

\* the arc branch at the current point (x1, y1): what it adds to the path
ArcTo(x1, y1, rx, ry, phi, fA, fS, x2, y2) ==
    IF ZeroRadius(rx, ry)
    THEN [done |-> TRUE, raised |-> "", operators |-> <<"lineTo">>,
          ends |-> <<<<x2, y2>>>>]
    ELSE CurvesAdded(bezier_arc_from_end_points(x1, y1, rx, ry, phi,
                                                fA, fS, x2, y2))

\* rx, ry, phi, fA, fS, x2, y2 = nums; x1, y1 = points[-2:]; "a" is relative
ArcStep(op, point, nums) ==
    ArcTo(point[1], point[2], nums[1], nums[2], nums[3], nums[4], nums[5],
          IF op = "a" THEN nums[6] + point[1] ELSE nums[6],
          IF op = "a" THEN nums[7] + point[2] ELSE nums[7])

(***************************************************************************)
(* Svg2RlgShapeConverter.convertRect (svglib.py 1280-1293)                  *)
(* An attribute is <<>> when the element does not have it and <<v>> when   *)
(* it has the length v; widths and heights are even, so halves are exact.  *)
(***************************************************************************)
\* convertLength(getAttr(attr), default=0.0): the default for no text
Length(attr, default) == IF attr = <<>> THEN default ELSE attr[1]

\* rx and ry as they are after the two comparisons with half the sides
ClampedRx(node) ==
    IF Length(node.rx, 0) > Length(node.width, 0) \div 2
    THEN Length(node.width, 0) \div 2 ELSE Length(node.rx, 0)

ClampedRy(node) ==
    IF Length(node.ry, 0) > Length(node.height, 0) \div 2
    THEN Length(node.height, 0) \div 2 ELSE Length(node.ry, 0)

\* if rx and not ry: ry = rx; elif ry and not rx: rx = ry
Radii(rx, ry, node) ==
    [rx |-> IF ry # 0 /\ rx = 0 THEN ry ELSE rx,
     ry |-> IF rx # 0 /\ ry = 0 THEN rx ELSE ry]

convertRect(node) ==
    [done |-> TRUE, raised |-> "",
     width |-> Length(node.width, 0), height |-> Length(node.height, 0),
     rx |-> Radii(ClampedRx(node), ClampedRy(node), node).rx,
     ry |-> Radii(ClampedRx(node), ClampedRy(node), node).ry]

(***************************************************************************)
(* The transform of the group of a nested coordinate system: renderSvg     *)
(* (svglib.py 1052-1104), renderSymbol under renderUse (1134-1136,         *)
(* 1158-1184, 917-929). A transform is the matrix (a, b, c, d, e, f) of a  *)
(* reportlab Group; lengths are integers chosen so that quotients are      *)
(* exact.                                                                  *)
(***************************************************************************)
\* the transform of a new Group
NoTransform == <<1, 0, 0, 1, 0, 0>>

\* the matrix product Group.translate, Group.scale and the matrix branch of
\* applyTransformOnGroup multiply the transform of a group with
mmult(A, B) ==
    <<A[1] * B[1] + A[3] * B[2],
      A[2] * B[1] + A[4] * B[2],
      A[1] * B[3] + A[3] * B[4],
      A[2] * B[3] + A[4] * B[4],
      A[1] * B[5] + A[3] * B[6] + A[5],
      A[2] * B[5] + A[4] * B[6] + A[6]>>

\* group.translate(dx, dy)
translate(transform, dx, dy) == mmult(transform, <<1, 0, 0, 1, dx, dy>>)

\* group.scale(sx, sy)
scale(transform, sx, sy) == mmult(transform, <<sx, 0, 0, sy, 0, 0>>)

\* get_box(node, default_box=True): the viewBox, or the box of width/height
get_box(node) ==
    IF node.viewBox # <<>>
    THEN [x |-> node.viewBox[1], y |-> node.viewBox[2],
          width |-> node.viewBox[3], height |-> node.viewBox[4]]
    ELSE [x |-> 0, y |-> 0,
          width |-> Length(node.width, 0), height |-> Length(node.height, 0)]

\* if x or y: group.translate(x or 0, y or 0), for a nested svg only
Translated(node, outermost) ==
    IF ~outermost /\ (Length(node.x, 0) # 0 \/ Length(node.y, 0) # 0)
    THEN translate(NoTransform, Length(node.x, 0), Length(node.y, 0))
    ELSE NoTransform

\* x_scale and y_scale: 1 unless the size is declared and differs from the box
Scale(declared, box) ==
    IF declared # <<>> /\ box # declared[1] THEN declared[1] \div box ELSE 1

\* height / view_box.height, width / view_box.width with a box side of 0
ScaleError(node) ==
    \/ node.height # <<>> /\ get_box(node).height # node.height[1]
                          /\ get_box(node).height = 0
    \/ node.width # <<>> /\ get_box(node).width # node.width[1]
                         /\ get_box(node).width = 0

\* y_scale * (-1 if outermost else 1)
Flip(outermost) == IF outermost THEN -1 ELSE 1

\* the transform of the group renderSvg returns
renderSvg(node, outermost) ==
    IF ScaleError(node)
    THEN [done |-> TRUE, raised |-> "ZeroDivisionError", transform |-> NoTransform]
    ELSE [done |-> TRUE, raised |-> "",
          transform |-> scale(Translated(node, outermost),
                              Scale(node.width, get_box(node).width),
                              Scale(node.height, get_box(node).height)
                                  * Flip(outermost))]

\* apply_node_attr_to_group for a use element without transform attribute:
\* translate(x, y) if it has x or y
apply_node_attr_to_group(node, transform) ==
    IF node.x # <<>> \/ node.y # <<>>
    THEN translate(transform, Length(node.x, 0), Length(node.y, 0))
    ELSE transform

\* renderUse on a use element that refers to a symbol: the copy of the
\* symbol is rendered by renderG into a group of its own, which is added to
\* the group of the use element; the transform from the content of the
\* symbol to the parent of the use element is the product of the two
renderUseSymbol(use, symbol) ==
    [done |-> TRUE, raised |-> "",
     transform |-> mmult(apply_node_attr_to_group(use, NoTransform), NoTransform)]

(***************************************************************************)
(* FunSpec: one converter is called on one input.                          *)
(***************************************************************************)
\* transform strings are made of at most MaxCalls of these pieces
MaxCalls == 3

TransformPieces ==
    {<<"s", "(", "2", ")">>,
     <<"t", "(", "2", ",", "-", "3", ".", "5", ")">>,
     <<"s", "(", " ", "2", " ", "3", " ", ")">>,
     <<"s", "(", "2">>,
     <<"r", "(", "x", ")">>,
     <<"(", "2", ")">>,
     <<"s", "(", ")">>,
     <<"s">>,
     <<" ">>,
     <<",">>}

RECURSIVE Concat(_)
Concat(pieces) ==
    IF pieces = <<>> THEN <<>> ELSE pieces[1] \o Concat(Tail(pieces))

TransformInputs ==
    {Concat(ps) : ps \in UNION {[1..n -> TransformPieces] : n \in 0..MaxCalls}}

\* paths of moves, lines and closes, and the fill attribute of the node
ClosingSegments == {<<"M", 2>>, <<"M", 4>>, <<"m", 2>>, <<"L", 2>>, <<"Z", 0>>}

FilledPaths ==
    {PathText(segs, " ") :
        segs \in UNION {[1..n -> ClosingSegments] : n \in 0..MaxSegs}}

Fills == {"", "none", "red", "foo"}

\* arcs from a current point: radii, rotation, flags and the end point,
\* which is the start point or lies a diameter or more away along an axis
ArcPoints == {<<0, 0>>, <<4, 2>>}

ArcNums ==
    {<<rx, ry, phi, fA, fS, x, y>> :
        rx \in {0, 2}, ry \in {0, 2}, phi \in {0, 90},
        fA \in {0, 1}, fS \in {0, 1},
        x \in {0, 4, 8, 10}, y \in {0, 2, 6, 8}}

\* the way from the start point to the end point of the arc call c
ArcWay(c) ==
    IF c.op = "a" THEN <<c.nums[6], c.nums[7]>>
    ELSE <<c.nums[6] - c.point[1], c.nums[7] - c.point[2]>>

\* the end point is the start point, or on an axis through it at an even
\* distance of at least the diameter
OnAxis(c) ==
    /\ ArcWay(c)[1] = 0 \/ ArcWay(c)[2] = 0
    /\ (Abs(ArcWay(c)[1]) + Abs(ArcWay(c)[2])) % 2 = 0
    /\ Abs(ArcWay(c)[1]) + Abs(ArcWay(c)[2]) \in {0} \cup (4..10)

\* rect elements: sides and radii absent or given
Sides == {<<>>, <<0>>, <<4>>, <<6>>, <<10>>}

Radiuses == {<<>>, <<0>>, <<1>>, <<2>>, <<3>>, <<4>>, <<10>>}

Rects == [width : Sides, height : Sides, rx : Radiuses, ry : Radiuses]

\* svg elements: place, declared size and viewBox absent or given
Places == {<<>>, <<3>>}

Sizes == {<<>>, <<4>>, <<8>>}

ViewBoxes == {<<>>, <<0, 0, 4, 4>>, <<0, 0, 2, 4>>, <<0, 0, 0, 0>>}

SvgNodes ==
    [x : Places, y : Places, width : Sizes, height : Sizes, viewBox : ViewBoxes]

\* use elements that refer to a symbol, and the symbols
UseNodes == [x : Places, y : Places, width : {<<>>, <<8>>}, height : {<<>>, <<8>>}]

SymbolNodes ==
    [x : {<<>>}, y : {<<>>}, width : {<<>>, <<8>>}, height : {<<>>, <<8>>},
     viewBox : {<<>>, <<0, 0, 4, 2>>}]

FunInit ==
    /\ IdlePath
    /\ IdleTree
    /\ IdleWalk
    /\ returned = [done |-> FALSE]
    /\ fonts = <<>>
    /\ call \in [fn : {"convertTransform"}, svgAttr : TransformInputs]
               \cup [fn : {"convertPath"}, d : FilledPaths, fill : Fills]
               \cup {c \in [fn : {"arc"}, op : {"A", "a"}, point : ArcPoints,
                            nums : ArcNums] : OnAxis(c)}
               \cup [fn : {"convertRect"}, node : Rects]
               \cup [fn : {"renderSvg"}, node : SvgNodes, outermost : BOOLEAN]
               \cup [fn : {"renderUse"}, node : UseNodes, symbol : SymbolNodes]

ConvertTransform ==
    /\ call.fn = "convertTransform"
    /\ ~returned.done
    /\ returned' = convertTransform(call.svgAttr)
    /\ UNCHANGED <<call, fonts, pathVars, treeVars, walkVars>>

ConvertPathGroup ==
    /\ call.fn = "convertPath"
    /\ ~returned.done
    /\ returned' = convertPathGroup(call.d, call.fill)
    /\ UNCHANGED <<call, fonts, pathVars, treeVars, walkVars>>

ConvertArc ==
    /\ call.fn = "arc"
    /\ ~returned.done
    /\ returned' = ArcStep(call.op, call.point, call.nums)
    /\ UNCHANGED <<call, fonts, pathVars, treeVars, walkVars>>

ConvertRect ==
    /\ call.fn = "convertRect"
    /\ ~returned.done
    /\ returned' = convertRect(call.node)
    /\ UNCHANGED <<call, fonts, pathVars, treeVars, walkVars>>

RenderSvg ==
    /\ call.fn = "renderSvg"
    /\ ~returned.done
    /\ returned' = renderSvg(call.node, call.outermost)
    /\ UNCHANGED <<call, fonts, pathVars, treeVars, walkVars>>

RenderUseSymbol ==
    /\ call.fn = "renderUse"
    /\ ~returned.done
    /\ returned' = renderUseSymbol(call.node, call.symbol)
    /\ UNCHANGED <<call, fonts, pathVars, treeVars, walkVars>>

FunNext ==
    \/ ConvertTransform
    \/ ConvertPathGroup
    \/ ConvertArc
    \/ ConvertRect
    \/ RenderSvg
    \/ RenderUseSymbol

FunSpec == FunInit /\ [][FunNext]_vars

(***************************************************************************)
(* What a transform list is: calls name(numbers), the numbers separated by *)
(* blanks or one comma, the calls by blanks or commas.                     *)
(***************************************************************************)
NameChars == {"s", "t", "r", "x"}

RECURSIVE SkipOver(_, _, _)
\* first position at or after i that holds no character of cs
SkipOver(s, i, cs) ==
    IF i <= Len(s) /\ s[i] \in cs THEN SkipOver(s, i + 1, cs) ELSE i

\* the numbers of an argument list, as texts
ArgTexts(inner) == SplitBlank(CommasToSpaces(inner))

\* no comma starts or ends the argument list or follows another comma
NoEmptyArg(inner) ==
    \A i \in 1..Len(SplitAt(SelectSeq(inner, LAMBDA c : c # " "), ",", 1, <<>>)) :
        SplitAt(SelectSeq(inner, LAMBDA c : c # " "), ",", 1, <<>>)[i] # <<>>

ArgsOk(inner) ==
    /\ NoEmptyArg(inner)
    /\ \A i \in 1..Len(ArgTexts(inner)) : PyFloatOk(ArgTexts(inner)[i])

ArgsOf(inner) ==
    [tuple |-> Len(ArgTexts(inner)) > 1,
     nums |-> [i \in 1..Len(ArgTexts(inner)) |-> PyFloat(ArgTexts(inner)[i])]]

RECURSIVE ReadCalls(_, _, _)
\* one call: a name from i up to j, "(" at j, ")" at k
ReadCall(s, i, j, k, acc) ==
    IF /\ j > i
       /\ j <= Len(s) /\ s[j] = "("
       /\ k <= Len(s) /\ s[k] = ")"
       /\ ArgsOk(SubSeq(s, j + 1, k - 1))
    THEN ReadCalls(s, SkipOver(s, k + 1, {" ", ","}),
                   Append(acc, [op |-> SubSeq(s, i, j - 1),
                                args |-> ArgsOf(SubSeq(s, j + 1, k - 1))]))
    ELSE [ok |-> FALSE, pairs |-> <<>>]

\* the calls of s from position i on, or not ok when s is no transform list
ReadCalls(s, i, acc) ==
    IF i > Len(s) THEN [ok |-> TRUE, pairs |-> acc]
    ELSE ReadCall(s, i, SkipOver(s, i, NameChars),
                  SkipOver(s, SkipOver(s, i, NameChars) + 1,
                           Digits \cup NameChars \cup {" ", ",", "-", "+", "."}),
                  acc)

TransformCalls(s) == ReadCalls(s, SkipOver(s, 1, {" ", ","}), <<>>)

\* C11: convertTransform never raises; it returns one (operation, arguments)
\* pair per call, in source order, when every call of the string is well
\* formed, and the empty list when some call is malformed.
C11_TransformTotal ==
    (call.fn = "convertTransform" /\ returned.done)
    => /\ returned.raised = ""
       /\ returned.value = TransformCalls(call.svgAttr).pairs

(***************************************************************************)
(* Subpaths of an operator list: one starts at a moveTo and at the first   *)
(* operator after a closePath, and is open while no closePath ended it.    *)
(***************************************************************************)
RECURSIVE Closed(_, _, _)
\* the operators with a closePath put at the end of every open subpath
Closed(operators, i, open) ==
    IF i > Len(operators) THEN (IF open THEN <<"closePath">> ELSE <<>>)
    ELSE IF operators[i] = "moveTo"
    THEN (IF open THEN <<"closePath">> ELSE <<>>)
         \o <<"moveTo">> \o Closed(operators, i + 1, TRUE)
    ELSE <<operators[i]>> \o Closed(operators, i + 1, operators[i] # "closePath")

HasOpenSubpath(operators) == Closed(operators, 1, FALSE) # operators

HasFill(fill) == fill = "" \/ fill \in ColorNames

\* C12: with a fill and an open subpath convertPath returns two paths over
\* the same points, first a stroke-less copy with one closePath at the end
\* of every open subpath (none added to closed ones), then the original
\* operators without fill; with no fill or no open subpath it returns the
\* one path.
C12_UnclosedPathSplit ==
    (call.fn = "convertPath" /\ returned.done
        /\ returned.raised = "" /\ ~returned.none)
    => IF HasFill(call.fill)
          /\ HasOpenSubpath(convertPath(call.d).path.operators)
       THEN /\ Len(returned.contents) = 2
            /\ returned.contents[1].typ = "NoStrokePath"
            /\ returned.contents[1].operators
                 = Closed(convertPath(call.d).path.operators, 1, FALSE)
            /\ returned.contents[1].fillColor # "None"
            /\ returned.contents[2].typ = "Path"
            /\ returned.contents[2].operators
                 = convertPath(call.d).path.operators
            /\ returned.contents[2].fillColor = "None"
            /\ returned.contents[1].points = returned.contents[2].points
            /\ returned.contents[2].points = convertPath(call.d).path.points
       ELSE /\ Len(returned.contents) = 1
            /\ returned.contents[1].typ = "Path"
            /\ returned.contents[1].operators
                 = convertPath(call.d).path.operators
            /\ returned.contents[1].points = convertPath(call.d).path.points

\* a filled path with a closed subpath followed by an open one
C12_Witness ==
    /\ call.fn = "convertPath" /\ returned.done /\ call.fill = "red"
    /\ Len(returned.contents) = 2
    /\ returned.contents[2].operators
         = <<"moveTo", "lineTo", "closePath", "moveTo", "lineTo">>
    /\ returned.contents[1].operators
         = <<"moveTo", "lineTo", "closePath", "moveTo", "lineTo", "closePath">>

\* the end point of the arc call c
ArcEnd(c) == <<c.point[1] + ArcWay(c)[1], c.point[2] + ArcWay(c)[2]>>

\* C13: a degenerate arc never raises; with a zero radius it adds one
\* straight line to its end point, and with non-zero radii and an end point
\* equal to its start point it adds nothing, whatever the flags and the
\* rotation are.
C13_DegenerateArc ==
    (call.fn = "arc" /\ returned.done
        /\ (call.nums[1] = 0 \/ call.nums[2] = 0 \/ ArcEnd(call) = call.point))
    => /\ returned.raised = ""
       /\ (call.nums[1] = 0 \/ call.nums[2] = 0)
            => /\ returned.operators = <<"lineTo">>
               /\ returned.ends = <<ArcEnd(call)>>
       /\ (call.nums[1] # 0 /\ call.nums[2] # 0)
            => /\ returned.operators = <<>>
               /\ returned.ends = <<>>

\* a rotated relative arc with both flags set that ends where it starts
C13_Witness ==
    /\ call.fn = "arc" /\ returned.done
    /\ call.op = "a" /\ call.point = <<4, 2>>
    /\ call.nums = <<2, 2, 90, 1, 1, 0, 0>>
    /\ returned.operators = <<>>

(***************************************************************************)
(* fonts.py: FontMap                                                       *)
(***************************************************************************)
STANDARD_FONT_NAMES ==
    {"Times-Roman", "Times-Italic", "Times-Bold", "Times-BoldItalic",
     "Helvetica", "Helvetica-Oblique", "Helvetica-Bold",
     "Helvetica-BoldOblique", "Courier", "Courier-Oblique", "Courier-Bold",
     "Courier-BoldOblique", "Symbol", "ZapfDingbats"}

DEFAULT_FONT_NAME == "Helvetica"

\* str.lower().capitalize() on the weights and styles of the model
Capitalized(word) ==
    CASE word = "bold" -> "Bold" [] word = "italic" -> "Italic" [] OTHER -> word

build_internal_name(family, weight, style) ==
    family
    \o (IF weight # "normal" \/ style # "normal" THEN "-" ELSE "")
    \o (IF weight # "normal" THEN Capitalized(weight) ELSE "")
    \o (IF style # "normal" THEN Capitalized(style) ELSE "")

guess_font_filename(basename, weight, style) ==
    basename
    \o (IF weight = "bold" /\ style # "italic" THEN "bd"
        ELSE IF weight = "bold" /\ style = "italic" THEN "bi"
        ELSE IF style = "italic" THEN "i" ELSE "")
    \o ".ttf"

\* dict[key] = value
Put(map, key, value) ==
    [k \in DOMAIN map \cup {key} |-> IF k = key THEN value ELSE map[k]]

NOT_FOUND(f) == [fonts |-> f, name |-> "None", exact |-> FALSE]

\* self._map[internal_name] = {..., "rlgFont": rlgFontName, "exact": True}
Mapped(f, internal_name, rlgFontName) ==
    [fonts |-> [f EXCEPT !.map = Put(@, internal_name,
                                     [rlgFont |-> rlgFontName, exact |-> TRUE])],
     name |-> internal_name, exact |-> TRUE]

\* registerFont(TTFont(rlgFontName, font_path)): TTFError when the file
\* cannot be read as a font
Loaded(f, rlgFontName, font_path) ==
    [f EXCEPT !.registered = Put(@, rlgFontName, font_path)]

RegisterNamed(f, internal_name, font_path, rlgFontName) ==
    IF rlgFontName \in STANDARD_FONT_NAMES
    THEN Mapped(f, internal_name, rlgFontName)
    ELSE IF internal_name \notin STANDARD_FONT_NAMES /\ font_path # "None"
    THEN (IF font_path \in f.ttf
          THEN Mapped(Loaded(f, rlgFontName, font_path), internal_name,
                      rlgFontName)
          ELSE NOT_FOUND(f))
    ELSE NOT_FOUND(f)

register_font(f, font_family, font_path, weight, style, rlgFontName) ==
    RegisterNamed(f, build_internal_name(font_family, weight, style), font_path,
                  IF rlgFontName = "None"
                  THEN build_internal_name(font_family, weight, style)
                  ELSE rlgFontName)

\* font_name.lower() in os.path.basename(success_font_path).lower()
NameInFile(font_name, file) == file = font_name \o ".ttf"

\* fc-match: not installed (OSError), no line that is a readable font, or
\* the first readable font file of its output
use_fontconfig(f, font_name, weight, style) ==
    IF f.fc \in {"unavailable", "nothing"} THEN NOT_FOUND(f)
    ELSE [fonts |-> [Loaded(f, font_name, f.fc) EXCEPT
                        !.map = Put(@, build_internal_name(font_name, weight, style),
                                    [rlgFont |-> font_name,
                                     exact |-> NameInFile(font_name, f.fc)])],
          name |-> font_name, exact |-> NameInFile(font_name, f.fc)]

Found(f, name, exact, steps) ==
    [done |-> TRUE, fonts |-> f, name |-> name, exact |-> exact,
     steps |-> steps]

\* steps 4 and 5
FromCatalog(r) ==
    IF r.name # "None" THEN Found(r.fonts, r.name, r.exact, <<1, 2, 3, 4>>)
    ELSE Found(r.fonts, DEFAULT_FONT_NAME, FALSE, <<1, 2, 3, 4, 5>>)

\* step 3: reg_name, exact = self.register_font(font_name, guessed_filename)
FromFile(r, font_name, weight, style) ==
    IF r.name # "None" THEN Found(r.fonts, r.name, r.exact, <<1, 2, 3>>)
    ELSE FromCatalog(use_fontconfig(r.fonts, font_name, weight, style))

FromFilePlain(f, font_name, weight, style) ==
    FromFile(register_font(f, font_name,
                           guess_font_filename(font_name, weight, style),
                           "normal", "normal", "None"),
             font_name, weight, style)

find_font(f, font_name, weight, style) ==
    IF build_internal_name(font_name, weight, style) \in STANDARD_FONT_NAMES
    THEN Found(f, build_internal_name(font_name, weight, style), TRUE, <<1>>)
    ELSE IF build_internal_name(font_name, weight, style) \in DOMAIN f.map
    THEN Found(f, f.map[build_internal_name(font_name, weight, style)].rlgFont,
               f.map[build_internal_name(font_name, weight, style)].exact,
               <<1, 2>>)
    ELSE FromFilePlain(f, font_name, weight, style)

\* register_default_fonts: family, weight, style, rlgFontName
DefaultFonts ==
    <<<<"Times New Roman", "normal", "normal", "Times-Roman">>,
      <<"Times New Roman", "bold", "normal", "Times-Bold">>,
      <<"Times New Roman", "normal", "italic", "Times-Italic">>,
      <<"Times New Roman", "bold", "italic", "Times-BoldItalic">>,
      <<"Helvetica", "normal", "normal", "Helvetica">>,
      <<"Helvetica", "bold", "normal", "Helvetica-Bold">>,
      <<"Helvetica", "normal", "italic", "Helvetica-Oblique">>,
      <<"Helvetica", "bold", "italic", "Helvetica-BoldOblique">>,
      <<"Courier New", "normal", "normal", "Courier">>,
      <<"Courier New", "bold", "normal", "Courier-Bold">>,
      <<"Courier New", "normal", "italic", "Courier-Oblique">>,
      <<"Courier New", "bold", "italic", "Courier-BoldOblique">>,
      <<"Courier", "normal", "italic", "Courier-Oblique">>,
      <<"Courier", "bold", "italic", "Courier-BoldOblique">>,
      <<"sans-serif", "normal", "normal", "Helvetica">>,
      <<"sans-serif", "bold", "normal", "Helvetica-Bold">>,
      <<"sans-serif", "normal", "italic", "Helvetica-Oblique">>,
      <<"sans-serif", "bold", "italic", "Helvetica-BoldOblique">>,
      <<"serif", "normal", "normal", "Times-Roman">>,
      <<"serif", "bold", "normal", "Times-Bold">>,
      <<"serif", "normal", "italic", "Times-Italic">>,
      <<"serif", "bold", "italic", "Times-BoldItalic">>,
      <<"times", "normal", "normal", "Times-Roman">>,
      <<"times", "bold", "normal", "Times-Bold">>,
      <<"times", "normal", "italic", "Times-Italic">>,
      <<"times", "bold", "italic", "Times-BoldItalic">>,
      <<"monospace", "normal", "normal", "Courier">>,
      <<"monospace", "bold", "normal", "Courier-Bold">>,
      <<"monospace", "normal", "italic", "Courier-Oblique">>,
      <<"monospace", "bold", "italic", "Courier-BoldOblique">>>>

RECURSIVE register_default_fonts(_, _)
register_default_fonts(f, i) ==
    IF i > Len(DefaultFonts) THEN f
    ELSE register_default_fonts(
             register_font(f, DefaultFonts[i][1], "None", DefaultFonts[i][2],
                           DefaultFonts[i][3], DefaultFonts[i][4]).fonts,
             i + 1)

\* FontMap() on a host with the readable font files ttf and the catalog fc
FontMap(ttf, fc) ==
    register_default_fonts([map |-> <<>>, registered |-> <<>>,
                            ttf |-> ttf, fc |-> fc], 1)

(***************************************************************************)
(* FontSpec: fonts are looked up and registered on one FontMap.            *)
(***************************************************************************)
Families == {"Helvetica", "Symbol", "serif", "Foo"}

Weights == {"normal", "bold"}

Styles == {"normal", "italic"}

FontFiles == {"Foo.ttf", "Foobd.ttf"}

Catalogs == {"unavailable", "nothing", "Foo.ttf", "DejaVuSans.ttf"}

FontInit ==
    /\ IdlePath
    /\ IdleTree
    /\ IdleWalk
    /\ call = [fn |-> "none"]
    /\ returned = [done |-> FALSE]
    /\ fonts \in {FontMap(ttf, fc) : ttf \in SUBSET FontFiles, fc \in Catalogs}

FindFont(font_name, weight, style) ==
    /\ call' = [fn |-> "find_font", font_name |-> font_name,
                weight |-> weight, style |-> style, before |-> fonts]
    /\ returned' = [done |-> TRUE,
                    name |-> find_font(fonts, font_name, weight, style).name,
                    exact |-> find_font(fonts, font_name, weight, style).exact,
                    steps |-> find_font(fonts, font_name, weight, style).steps]
    /\ fonts' = find_font(fonts, font_name, weight, style).fonts
    /\ UNCHANGED <<pathVars, treeVars, walkVars>>

\* the module-level register_font(font_family, font_path, weight, style)
RegisterFont(font_family, font_path, weight, style) ==
    /\ call' = [fn |-> "register_font", font_name |-> font_family,
                weight |-> weight, style |-> style, before |-> fonts]
    /\ returned' = [done |-> TRUE,
                    name |-> register_font(fonts, font_family, font_path,
                                           weight, style, "None").name,
                    exact |-> register_font(fonts, font_family, font_path,
                                            weight, style, "None").exact,
                    steps |-> <<>>]
    /\ fonts' = register_font(fonts, font_family, font_path, weight, style,
                              "None").fonts
    /\ UNCHANGED <<pathVars, treeVars, walkVars>>

FontNext ==
    \/ \E font_name \in Families, weight \in Weights, style \in Styles :
           FindFont(font_name, weight, style)
    \/ \E font_path \in {"Foo.ttf", "None"}, weight \in Weights :
           RegisterFont("Foo", font_path, weight, "normal")

FontSpec == FontInit /\ [][FontNext]_vars

(***************************************************************************)
(* Font claims                                                             *)
(***************************************************************************)
CallKey == build_internal_name(call.font_name, call.weight, call.style)

\* the first step of the chain that hits, on the FontMap before the call
FirstHit ==
    IF CallKey \in STANDARD_FONT_NAMES THEN 1
    ELSE IF CallKey \in DOMAIN call.before.map THEN 2
    ELSE IF guess_font_filename(call.font_name, call.weight, call.style)
              \in call.before.ttf THEN 3
    ELSE IF call.before.fc \notin {"unavailable", "nothing"} THEN 4
    ELSE 5

\* C14: find_font answers from the first step that hits and runs no later
\* step: (1) a standard font, exact; (2) a registered mapping, with its
\* stored flag; (3) a font file of the guessed name, exact; (4) the system
\* catalog, exact only if the family name occurs in the file name; (5) the
\* default font, not exact.
C14_FirstHitAnswers ==
    (call.fn = "find_font" /\ returned.done)
    => /\ returned.steps = [i \in 1..FirstHit |-> i]
       /\ FirstHit = 1 => returned.name = CallKey /\ returned.exact
       /\ FirstHit = 2 => /\ returned.name = call.before.map[CallKey].rlgFont
                          /\ returned.exact = call.before.map[CallKey].exact
       /\ FirstHit = 3 => returned.exact
       /\ FirstHit = 4 => returned.exact
                            = NameInFile(call.font_name, call.before.fc)
       /\ FirstHit = 5 => /\ returned.name = DEFAULT_FONT_NAME
                          /\ ~returned.exact


(***************************************************************************)
(* The decompressed copy of a .svgz input (svglib.py 1800-1820)             *)
(***************************************************************************)
\* the call has ended: a drawing, None, or an exception
Ended == phase \in {"Done", "Failed", "Raised"}

\* the copy was made: the with statement of svg2rlg ended without exception
Compressed == unzipped

\* C15: once svg2rlg has ended on a .svgz input, whether with a drawing,
\* with None because the decompressed document does not load, or with an
\* exception raised while rendering, the decompressed copy does not exist.
C15_CopyRemoved ==
    (Ended /\ Compressed) => files[path].state = "missing"

\* the three outcomes of a call on a .svgz input that was decompressed
CopyLeftAfterNone == phase = "Failed" /\ unzipped /\ files[path].state # "missing"

CopyLeftAfterRaise == phase = "Raised" /\ unzipped /\ files[path].state # "missing"

\* the success path does remove the copy
CopyRemovedOnSuccess ==
    (phase = "Done" /\ Compressed) => files[path].state = "missing"

CopyRemovedReached == phase = "Done" /\ unzipped

(***************************************************************************)
(* The waiting lists of use elements (svglib.py 818-834, 1014-1022, 735-737)*)
(***************************************************************************)
\* the positions of queueLog that speak of the same pair as position i
Same(i) ==
    { j \in 1..Len(queueLog) : /\ queueLog[j].ren = queueLog[i].ren
                               /\ queueLog[j].use = queueLog[i].use
                               /\ queueLog[j].grp = queueLog[i].grp }

Ops(i, op) == { j \in Same(i) : queueLog[j].op = op }

\* C19: every (use element, group) pair put on a waiting list is taken off
\* exactly once, by the visit of an element with the awaited id or by the
\* report at the end of render: it is not put on a list a second time, not
\* taken off twice, and after render has ended it has been taken off.
C19_QueuedOnce ==
    \A i \in 1..Len(queueLog) :
        /\ Cardinality(Ops(i, "put")) = 1
        /\ Cardinality(Ops(i, "take") \cup Ops(i, "report")) <= 1
        /\ phase = "Done" =>
              Cardinality(Ops(i, "take") \cup Ops(i, "report")) = 1

\* a pair that was put on a list, taken off and put on the list again
Requeued ==
    \E i, j, k \in 1..Len(queueLog) :
        /\ i < j /\ j < k /\ j \in Same(i) /\ k \in Same(i)
        /\ queueLog[i].op = "put" /\ queueLog[j].op = "take"
        /\ queueLog[k].op = "put"

(***************************************************************************)
(* The definitions of a renderer (svglib.py 818-823, 1178-1182)             *)
(***************************************************************************)
\* the id is registered with renderer r
Registered(r, i) == rens[r].definitions[i] # 0

\* no two elements of the input document carry the same id
UniqueIds ==
    \A m, n \in 1..Len(doc0) :
        (doc0[m].id # "" /\ doc0[m].id = doc0[n].id) => m = n

\* C20: the definitions of a renderer only grow and an entry keeps naming
\* the element it was first registered for: no step of a conversion removes
\* an entry or makes it name another element, the copies made for use
\* elements included.
C20_RegistryStable ==
    [][UniqueIds =>
          \A r \in 1..Len(rens) : \A i \in Ids :
              Registered(r, i) =>
                  rens'[r].definitions[i] = rens[r].definitions[i]]_vars

\* no entry is ever removed
RegistryGrows ==
    [][\A r \in 1..Len(rens) : \A i \in Ids :
          Registered(r, i) => rens'[r].definitions[i] # 0]_vars

\* an entry names an element that is not in the input document
Repointed ==
    \E r \in 1..Len(rens) : \E i \in Ids :
        /\ Registered(r, i)
        /\ rens[r].source_path = MainPath
        /\ rens[r].definitions[i] > Len(doc0)

(***************************************************************************)
(* Symbols (svglib.py 778-785, 1176-1184)                                   *)
(***************************************************************************)
\* the item is in the contents of a group
Shown(g) == \E p \in 1..Len(out) : g \in SeqSet(out[p].contents)

\* element n is the child a use element renders: the copy of its target
Instantiated(n) == dom[n].parent # 0 /\ dom[dom[n].parent].kind = "use"

\* C17: the group of a symbol is added to the output only when the symbol
\* is the target a use element instantiates, wherever the symbol stands:
\* at top level, in a group, in defs, or in a subtree that a use element
\* copies because it refers to an element around the symbol.
C17_SymbolOnlyByUse ==
    \A g \in 1..Len(out) :
        (dom[out[g].node].kind = "symbol" /\ Shown(g))
            => Instantiated(out[g].node)

\* a symbol that no use element refers to, rendered at its place
SymbolSkipped ==
    \E g \in 1..Len(out) :
        /\ dom[out[g].node].kind = "symbol"
        /\ out[g].node <= Len(doc0)
        /\ ~Shown(g)
        /\ phase = "Done"

(***************************************************************************)
(* The corner radii of a rect (svglib.py 1280-1293)                         *)
(***************************************************************************)
\* C18: the radii of the Rect made for a rect element are at most half its
\* sides, rx <= width / 2 and ry <= height / 2, also when only one of rx
\* and ry is given and the other takes its value.
C18_RadiiClamped ==
    (call.fn = "convertRect" /\ returned.done) =>
        /\ 2 * returned.rx <= returned.width
        /\ 2 * returned.ry <= returned.height

\* when neither radius takes the value of the other, the radii are at most
\* half the sides
BothRadiiClamped ==
    (/\ call.fn = "convertRect" /\ returned.done
     /\ (ClampedRx(call.node) = 0) = (ClampedRy(call.node) = 0)) =>
        /\ 2 * returned.rx <= returned.width
        /\ 2 * returned.ry <= returned.height

\* test_rx_ry: rx="10" ry="4" width="10" height="6"
BothRadiiReached ==
    /\ call.fn = "convertRect" /\ returned.done
    /\ call.node = [width |-> <<10>>, height |-> <<6>>, rx |-> <<10>>, ry |-> <<4>>]
    /\ returned.rx = 5 /\ returned.ry = 3

(***************************************************************************)
(* Nested coordinate systems (svglib.py 1083-1104, 1134-1136)               *)
(***************************************************************************)
\* the transform t translates by (x, y) first: the offsets are not scaled
TranslatedBy(t, x, y) == t[5] = x /\ t[6] = y

\* the transform scales the box onto the declared size, each axis by itself,
\* and leaves an axis without declared size or with a box of that size alone
ScaledTo(t, width, height, box) ==
    /\ t[2] = 0 /\ t[3] = 0
    /\ Abs(t[1]) * box.width = Length(width, box.width)
    /\ Abs(t[4]) * box.height = Length(height, box.height)

\* the size a use element declares for the symbol it refers to, the size of
\* the symbol where the use element declares none
DeclaredSize(use, symbol) ==
    [width |-> IF use.width # <<>> THEN use.width ELSE symbol.width,
     height |-> IF use.height # <<>> THEN use.height ELSE symbol.height]

\* the call made a group for a nested svg
NestedSvg == call.fn = "renderSvg" /\ returned.done /\ ~call.outermost

\* the call made the group of a symbol that a use element refers to
SymbolInstance == call.fn = "renderUse" /\ returned.done

\* a nested svg is translated by its x/y, then scaled from its box to its
\* declared size, and does not flip the y axis
NestedSvgPlaced ==
    (NestedSvg /\ returned.raised = "") =>
        /\ TranslatedBy(returned.transform,
                        Length(call.node.x, 0), Length(call.node.y, 0))
        /\ ScaledTo(returned.transform, call.node.width, call.node.height,
                    get_box(call.node))
        /\ returned.transform[4] > 0

\* the outermost svg is not translated, is scaled alike and flips the y axis
OutermostFlips ==
    (call.fn = "renderSvg" /\ returned.done /\ call.outermost
                           /\ returned.raised = "") =>
        /\ TranslatedBy(returned.transform, 0, 0)
        /\ ScaledTo(returned.transform, call.node.width, call.node.height,
                    get_box(call.node))
        /\ returned.transform[4] < 0

\* C16: every nested coordinate system, a nested svg and a symbol that a use
\* element instantiates alike, is translated by its x/y first and then
\* scaled, x by declared width / box width and y by declared height / box
\* height, not at all where the two are equal; only the outermost svg flips
\* the y axis.
C16_NestedSystems ==
    /\ NestedSvgPlaced
    /\ OutermostFlips
    /\ SymbolInstance =>
          /\ TranslatedBy(returned.transform,
                          Length(call.node.x, 0), Length(call.node.y, 0))
          /\ ScaledTo(returned.transform,
                      DeclaredSize(call.node, call.symbol).width,
                      DeclaredSize(call.node, call.symbol).height,
                      get_box([call.symbol EXCEPT
                                  !.width = DeclaredSize(call.node, call.symbol).width,
                                  !.height = DeclaredSize(call.node, call.symbol).height]))
          /\ returned.transform[4] > 0

\* test_svg_in_svg: a nested svg with x, y, a viewBox and a declared size
NestedSvgReached ==
    /\ NestedSvg
    /\ call.node = [x |-> <<3>>, y |-> <<3>>, width |-> <<8>>, height |-> <<8>>,
                    viewBox |-> <<0, 0, 2, 4>>]
    /\ returned.transform = <<4, 0, 0, 2, 3, 3>>

\* a box without extent under a declared size: the quotient cannot be formed
ScaleErrorReached ==
    call.fn = "renderSvg" /\ returned.done /\ returned.raised = "ZeroDivisionError"

(***************************************************************************)
(* The definition pass of renderSvg (svglib.py 1071-1079, 766-767)          *)
(***************************************************************************)
RECURSIVE InDefs(_, _)
\* element n of d stands inside a defs element
InDefs(d, n) ==
    IF d[n].parent = 0 THEN FALSE
    ELSE d[d[n].parent].kind = "defs" \/ InDefs(d, d[n].parent)

RECURSIVE DefsOf(_, _)
\* the outermost defs element around element n
DefsOf(d, n) ==
    IF InDefs(d, d[n].parent) THEN DefsOf(d, d[n].parent) ELSE d[n].parent

\* the kinds of element renderNode has an item for
ItemKinds == {"rect", "g", "a", "symbol", "clipPath", "svg", "use"}

\* the elements of the main document in defs that have an id and an item
Defined ==
    { n \in 1..Len(doc0) :
         InDefs(doc0, n) /\ doc0[n].id # "" /\ doc0[n].kind \in ItemKinds }

\* renderNode was called on an element of the main document outside defs
WalkBegun == \E n \in visited : n <= Len(doc0) /\ ~InDefs(doc0, n)

\* a use element of the main document before the defs element around m
\* that refers to m
UsesBefore(m) ==
    { u \in 1..Len(doc0) :
         /\ doc0[u].kind = "use" /\ doc0[u].file = ""
         /\ doc0[u].href = doc0[m].id
         /\ u < DefsOf(doc0, m) }

\* C21 as stated: before renderNode is called on the first element outside
\* defs every element in a defs element that has an id and an item is
\* registered, and a use element that stands before that defs element in
\* the document and refers to it is never put on a waiting list.
C21_DefsFirst ==
    /\ WalkBegun => \A m \in Defined : Registered(1, doc0[m].id)
    /\ \A m \in Defined : \A u \in UsesBefore(m) :
          \A w \in waited : ~(w[1] = 1 /\ w[2] = u)

\* C21: before renderNode is called on the first element outside defs every
\* element in a defs element that has an id and an item is registered, and
\* a use element outside defs that stands before that defs element in the
\* document and refers to it is never put on a waiting list.
C21_DefsFirstOutside ==
    /\ WalkBegun => \A m \in Defined : Registered(1, doc0[m].id)
    /\ \A m \in Defined : \A u \in UsesBefore(m) :
          ~InDefs(doc0, u) => \A w \in waited : ~(w[1] = 1 /\ w[2] = u)

\* test_use_with_defs_at_end: the use element before the defs element has
\* been rendered with the copy of the rect
C21_Witness ==
    /\ phase = "Done"
    /\ \E m \in Defined : \E u \in UsesBefore(m) :
          /\ ~InDefs(doc0, u)
          /\ dom[u].kids # <<>>
          /\ u \in visited

(***************************************************************************)
(* External files (svglib.py 987-1003, 661-687, 700-719)                    *)
(***************************************************************************)
\* the renderers made for path p: one for each ExternalSVG(p, ...), that is
\* for each time load_svg_file(p) was called for a reference
LoadsOf(p) == { r \in 2..Len(rens) : rens[r].source_path = p }

\* the elements a call under way is rendering
InProgress == { stack[k].n : k \in 1..Len(stack) } \ {0}

\* C22: in one conversion every external file is loaded at most once,
\* however many elements refer to it and in whichever file they stand, and
\* a file that no element rendered refers to is not loaded.
C22_LoadedOnce ==
    /\ \A p \in Paths : Cardinality(LoadsOf(p)) <= 1
    /\ \A r \in 2..Len(rens) :
          \E n \in visited \cup InProgress : dom[n].file = rens[r].source_path

\* one renderer loads a file once, however many of its elements refer to it
LoadedOncePerRenderer ==
    \A p \in Paths : \A r \in 1..Len(rens) :
        Cardinality({ q \in LoadsOf(p) :
                         /\ rens[q].parent_chain # <<>>
                         /\ Len(rens[q].parent_chain) = Len(rens[r].parent_chain) + 1
                         /\ rens[r].external_svgs[p].made
                         /\ rens[r].external_svgs[p].ren = q }) <= 1

(***************************************************************************)
(* Stylesheets and the place of their style element (svglib.py 297-300,    *)
(* 1129-1132, 1071-1079)                                                    *)
(***************************************************************************)
\* the style elements of the main document
Blocks == { b \in 1..Len(doc0) : doc0[b].kind = "style" }

\* element n had its cascade and block b has a declaration for it that no
\* style attribute of n overrides
Concerns(b, n, k) ==
    /\ dom[n].applied
    /\ Matches(doc0[n], doc0[b].text[k].sel)
    /\ doc0[n].style[doc0[b].text[k].name] = ""

\* C23: an element that had its cascade has the declarations of every
\* style element of the document whose selector matches it, wherever the
\* style element stands: before or after the element, inside or outside
\* defs.
C23_AllBlocksApply ==
    \A b \in Blocks : \A n \in 1..Len(doc0) : \A k \in 1..Len(doc0[b].text) :
        Concerns(b, n, k)
            => dom[n].attrib[doc0[b].text[k].name] = doc0[b].text[k].value

\* a style element before the element or inside defs takes part
EarlierBlocksApply ==
    \A b \in Blocks : \A n \in 1..Len(doc0) : \A k \in 1..Len(doc0[b].text) :
        (Concerns(b, n, k) /\ ~InDefs(doc0, n) /\ (b < n \/ InDefs(doc0, b)))
            => dom[n].attrib[doc0[b].text[k].name] = doc0[b].text[k].value

\* a rect before the defs element that holds the style element came out pink
BlockInDefsReached ==
    \E b \in Blocks : \E g \in 1..Len(out) :
        /\ InDefs(doc0, b) /\ out[g].node < b
        /\ out[g].typ = "Rect" /\ out[g].fill = "pink"

(***************************************************************************)
(* The cascade happens once per element (svglib.py 297-308, 637-652)       *)
(***************************************************************************)
\* a lookup of name from n only passes elements that had their cascade
RECURSIVE Settles(_, _, _)
Settles(d, n, name) ==
    /\ d[n].applied
    /\ \/ IsSet(d[n].attrib[name])
       \/ d[n].parent = 0
       \/ Settles(d, d[n].parent, name)

\* C24: an element has its cascade at the first lookup that reaches it;
\* from then on no lookup and no loading of a stylesheet changes its
\* attributes, and a lookup on an element that was made before returns the
\* value it returned before.
C24_CascadeOnce ==
    [][\A n \in 1..Len(dom) :
          /\ dom[n].applied => dom'[n].attrib = dom[n].attrib
          /\ \A name \in Names :
                Settles(dom, n, name)
                => findAttr(dom', rens'[1].css_rules, n, name).value
                     = findAttr(dom, rens[1].css_rules, n, name).value]_vars

\* a lookup on an element whose attributes differ from what the rules
\* loaded by now would give it: the rules came after its cascade
C24_Witness ==
    \E i \in DOMAIN lookup : \E k \in 1..Len(rens[1].css_rules) :
        /\ ~IsCopy(lookup[i].node)
        /\ dom[lookup[i].node].applied
        /\ Matches(dom[lookup[i].node], rens[1].css_rules[k].sel)
        /\ rens[1].css_rules[k].name = lookup[i].name
        /\ dom[lookup[i].node].style[lookup[i].name] = ""
        /\ \A j \in 1..Len(rens[1].css_rules) :
              Matches(dom[lookup[i].node], rens[1].css_rules[j].sel)
              => dom[lookup[i].node].attrib[lookup[i].name] # rens[1].css_rules[j].value

(***************************************************************************)
(* display: none (svglib.py 771-775, 810-813, 818-834)                     *)
(***************************************************************************)
\* the items made for a g or a shape of the main document that declares
\* display: none, in its attribute or in its style attribute
HiddenItems(how) ==
    { g \in 1..Len(out) :
         /\ out[g].node <= Len(doc0)
         /\ doc0[out[g].node].kind \in {"g"} \cup ShapeKinds
         /\ IF how = "attribute" THEN doc0[out[g].node].attrib["display"] = "none"
            ELSE doc0[out[g].node].style["display"] = "none" }

\* C25: the item of a g or a shape that declares display: none, as an
\* attribute or in its style attribute, is never added to a group, and
\* once the conversion is done the element and its descendants are
\* registered under their ids and no use element waits for them.
C25_HiddenNotAttached ==
    /\ \A g \in HiddenItems("attribute") \cup HiddenItems("style") : ~Shown(g)
    /\ phase = "Done" =>
          \A n \in 1..Len(doc0) :
             (doc0[n].id # "" /\ \E m \in 1..Len(doc0) :
                                    /\ Declared(doc0[m], "display") = "none"
                                    /\ n \in {m} \cup SeqSet(doc0[m].kids))
                => /\ Registered(1, doc0[n].id)
                   /\ rens[1].waiting_use_nodes[doc0[n].id] = <<>>

\* display: none as an attribute of a g or a shape, or in the style
\* attribute of a shape, keeps the item out of the output
HiddenByAttribute ==
    \A g \in HiddenItems("attribute") \cup HiddenItems("style") :
        (g \in HiddenItems("attribute") \/ doc0[out[g].node].kind \in ShapeKinds)
            => ~Shown(g)

\* the element with display: none and its descendants are registered and
\* resolved when the conversion is done
HiddenStillVisited ==
    phase = "Done" =>
        \A n \in 1..Len(doc0) :
           (doc0[n].id # "" /\ \E m \in 1..Len(doc0) :
                                  /\ Declared(doc0[m], "display") = "none"
                                  /\ n \in {m} \cup SeqSet(doc0[m].kids))
              => /\ Registered(1, doc0[n].id)
                 /\ rens[1].waiting_use_nodes[doc0[n].id] = <<>>

\* a shape hidden by its style attribute was left out, and the use element
\* before it got its copy
HiddenShapeReached ==
    /\ phase = "Done"
    /\ \E g \in HiddenItems("style") :
          /\ doc0[out[g].node].kind \in ShapeKinds
          /\ ~Shown(g)
          /\ \E c \in 1..Len(out) : out[c].node > Len(doc0) /\ out[c].typ = "Rect"

(***************************************************************************)
(* The viewport and the whitespace flag of nested svg elements             *)
(* (svglib.py 1062-1081, 460-478)                                          *)
(***************************************************************************)
\* the calls of renderSvg of renderer r in progress past their first lines
SvgCalls(r) ==
    { k \in 1..Len(stack) :
         stack[k].f = "svg" /\ stack[k].st # "enter" /\ stack[k].ren = r }

Innermost(r) == CHOOSE k \in SvgCalls(r) : \A j \in SvgCalls(r) : j <= k

\* the nearest svg element around element n
RECURSIVE EnclosingSvg(_, _)
EnclosingSvg(d, n) ==
    IF d[n].parent = 0 THEN n
    ELSE IF d[d[n].parent].kind = "svg" THEN d[n].parent
    ELSE EnclosingSvg(d, d[n].parent)

\* the box and the flag of a renderer are those of the svg element of its
\* innermost renderSvg call in progress
ViewportStack ==
    \A r \in 1..Len(rens) :
        SvgCalls(r) # {}
            => /\ rens[r].main_box = BoxOf(dom[stack[Innermost(r)].n])
               /\ rens[r].preserve_space = (dom[stack[Innermost(r)].n].space = "preserve")

\* every shape was converted with the box of the nearest svg element around
\* its element
InnermostBox ==
    \A g \in 1..Len(out) :
        out[g].typ = "Rect" => out[g].box = BoxOf(dom[EnclosingSvg(dom, out[g].node)])

\* C26: a renderer has one box and one whitespace flag at a time, those of
\* the svg element whose children are being visited, and they are those of
\* the enclosing svg element again when the visit of a nested svg element
\* has ended, at any depth; so every shape resolves its percentages with the
\* box of the nearest svg element around it.
C26_Viewport == ViewportStack /\ InnermostBox

\* a rect after an svg in an svg was converted with the box of the root
ViewportRestored ==
    \E g, h, i \in 1..Len(out) :
        /\ g < h /\ h < i
        /\ out[g].typ = "Rect" /\ out[g].box = <<NestedSize>>
        /\ out[h].typ = "Rect" /\ out[h].box = <<InnerSize>>
        /\ out[i].typ = "Rect" /\ out[i].box = <<RootSize>>
        /\ dom[out[i].node].parent = 1

(***************************************************************************)
(* Registered ids and awaited ids (svglib.py 818-834, 1014-1022)           *)
(***************************************************************************)
\* a waiting list exists under the id with renderer r
Awaited(r, i) == rens[r].waiting_use_nodes[i] # <<>>

\* C27: at no point between two steps of the walk, so whenever the visit of
\* an element has ended, is an id both registered with a renderer and the
\* key of one of its waiting lists.
C27_RegisteredOrAwaited ==
    \A r \in 1..Len(rens) : \A i \in Ids : ~(Registered(r, i) /\ Awaited(r, i))

\* an id that a use element waited for is registered and its list is gone,
\* while there is a list under another id
C27_Witness ==
    \E i, j \in Ids : \E k \in 1..Len(queueLog) :
        /\ queueLog[k].op = "take" /\ queueLog[k].ren = 1
        /\ dom[queueLog[k].use].href = i
        /\ Registered(1, i) /\ ~Awaited(1, i)
        /\ Awaited(1, j)

(***************************************************************************)
(* A use element resolved at once or from the waiting list                 *)
(* (svglib.py 1158-1184, 786-788, 831-834)                                 *)
(***************************************************************************)
\* the groups of the use elements of the main document that got their copy
Instances ==
    { g \in 1..Len(out) :
         /\ out[g].typ = "Group" /\ out[g].node <= Len(doc0)
         /\ doc0[out[g].node].kind = "use" /\ doc0[out[g].node].file = ""
         /\ out[g].contents # <<>> }

\* the clipPath element before use element u that its clip-path names
ClipOf(u) ==
    { c \in 1..(u - 1) : doc0[c].kind = "clipPath" /\ doc0[c].id = doc0[u].clip }

\* the group holds one item, made for the child of the use element, which
\* is a copy of the kind of its target
OneCopy(g) ==
    /\ Len(out[g].contents) = 1
    /\ dom[out[out[g].contents[1]].node].parent = out[g].node
    /\ out[out[g].contents[1]].node > Len(doc0)

\* C28: the group of a use element is the same whether its target was
\* registered when the use element was visited or only later: it has the
\* clipping path its clip-path attribute names and holds the item made for
\* one copy of the target.
C28_SameGroup ==
    \A g \in Instances :
        /\ OneCopy(g)
        /\ \A c \in ClipOf(out[g].node) : out[g].clip = doc0[c].kids[1]

\* the content is the same on both ways
SameContent == \A g \in Instances : OneCopy(g)

\* a use element whose target was registered before it has its clipping path
ClippedAtOnce ==
    \A g \in Instances :
        (\A k \in 1..Len(queueLog) : queueLog[k].use # out[g].node)
            => \A c \in ClipOf(out[g].node) : out[g].clip = doc0[c].kids[1]

ClippedReached ==
    \E g \in Instances : out[g].clip # 0 /\ phase = "Done"

(***************************************************************************)
(* A use element with children of its own (svglib.py 1176-1184)            *)
(***************************************************************************)
\* the groups made for the use elements of the main document that come
\* after a shape with the id they refer to
AfterTarget ==
    { g \in 1..Len(out) :
         /\ out[g].typ = "Group" /\ out[g].node <= Len(doc0)
         /\ doc0[out[g].node].kind = "use" /\ doc0[out[g].node].file = ""
         /\ \E t \in 1..(out[g].node - 1) :
               doc0[t].kind \in ShapeKinds /\ doc0[t].id = doc0[out[g].node].href }

\* the group holds the item made for a copy of the target
HoldsCopy(g) ==
    \E k \in 1..Len(out[g].contents) :
        /\ out[out[g].contents[k]].node > Len(doc0)
        /\ dom[out[out[g].contents[k]].node].id = doc0[out[g].node].href

\* C29: once the conversion is done, the group of a use element whose
\* target was registered when it was rendered holds the item made for a
\* copy of the target, whether or not the use element has children of its
\* own in the document.
C29_UseHoldsCopy ==
    phase = "Done" => \A g \in AfterTarget : HoldsCopy(g)

\* it does for a use element without children
ChildlessUseHoldsCopy ==
    phase = "Done" =>
        \A g \in AfterTarget : doc0[out[g].node].kids = <<>> => HoldsCopy(g)

ChildlessUseReached ==
    /\ phase = "Done"
    /\ \E g \in AfterTarget : doc0[out[g].node].kids = <<>> /\ HoldsCopy(g)

(***************************************************************************)
(* The entries find_font writes (fonts.py 433-454, 376-409)                *)
(***************************************************************************)
\* the entry under key k is as it was before the call
Untouched(k) ==
    /\ (k \in DOMAIN fonts.map) = (k \in DOMAIN call.before.map)
    /\ k \in DOMAIN fonts.map => fonts.map[k] = call.before.map[k]

\* C30: find_font(family, weight, style) makes or changes no entry of the
\* font map but the one under the key built from that family, weight and
\* style, so a lookup of one weight and style of a family does not depend
\* on the lookups of the others made before.
C30_OnlyOwnKey ==
    (call.fn = "find_font" /\ returned.done)
        => \A k \in (DOMAIN fonts.map \cup DOMAIN call.before.map) \ {CallKey} :
              Untouched(k)

\* the keys find_font writes: its own (fontconfig) or the one of the family
\* with normal weight and style (font file of the guessed name)
OwnOrPlainKey ==
    (call.fn = "find_font" /\ returned.done)
        => \A k \in (DOMAIN fonts.map \cup DOMAIN call.before.map)
                       \ {CallKey, build_internal_name(call.font_name, "normal", "normal")} :
              Untouched(k)

\* the lookup of the plain family answered with the file registered by a
\* lookup of its bold weight before
PlainFromBoldFile ==
    /\ call.fn = "find_font" /\ returned.done
    /\ call.weight = "normal" /\ call.style = "normal"
    /\ returned.steps = <<1, 2>>
    /\ returned.name \in DOMAIN fonts.registered
    /\ fonts.registered[returned.name] = guess_font_filename(call.font_name, "bold", "normal")

====
